---- MODULE Spec2Model ----
(***************************************************************************)
(* State-machine model of meshmate's scheduling engine:                    *)
(*   - ScheduleManager (src/schedule_manager.py): the registry             *)
(*     (add_schedule, list_schedules, delete_schedule), the resolver       *)
(*     (get_due_schedules) and the store (save_schedules);                 *)
(*   - schedule_worker (src/main.py): the minute-aligned dispatch loop,   *)
(*     and execute_scheduled_content, the executor it calls.               *)
(*                                                                         *)
(* Python strings are modelled as sequences of one-character strings       *)
(* (times, contents) or of pieces (recurrence text: words, "," and " ").   *)
(* An Optional value is a set: {} is None, {x} is the value x.             *)
(* The field created_at is written by add_schedule and read by no          *)
(* operation of the engine; the model leaves it out of the records.        *)
(***************************************************************************)
EXTENDS Integers, Sequences, FiniteSets, TLC

VARIABLES
    schedules,      \* self.schedules: the dict, as a sequence of entries
                    \* [user_id, list] in insertion order
    file,           \* contents of self.data_file
    now,            \* the wall clock (datetime.now()), in ticks
    result,         \* return value of the last registry / resolver call
    writeFailures,  \* number of failed writes so far (bounded)
    fired,          \* history: per schedule, the dates of the due sets it
                    \* was in (the first two)
    loaded,         \* history: the mapping load_schedules gave when the
                    \* process last started
    found,          \* history: the file the process found when it last
                    \* started
    pc,             \* schedule_worker: position in the loop
    due,            \* schedule_worker: due_schedules not yet handed over
    tickRead,       \* history: <<date, minute, n>>, the n-th read of the
                    \* minute by a tick of the loop (n = 1, 2)
    seen,           \* history: occurrences <<user, id, date, minute>> a tick
                    \* read while the schedule was armed
    returned,       \* history: <<user, id, date, minute, n>>, the n-th time
                    \* a tick returned the occurrence as due (n = 1, 2)
    calls,          \* history: <<user, id, date, minute, n>>, the n-th
                    \* executor call for the occurrence (n = 1, 2)
    armed,          \* history: occurrences armed when their minute began
    missed,         \* history: armed occurrences whose minute ended with the
                    \* schedule still armed and no executor call
    tickAt,         \* history: the clock reading of the loop's last tick
    handed,         \* history: the items the last tick has passed to the
                    \* executor so far, in order, each with what came of it
    current_time,   \* schedule_worker: current_time of line 489 (before the
                    \* first sleep: the time the loop started)
    sleep_seconds,  \* schedule_worker: sleep_seconds of line 491, in ticks
                    \* (before the first sleep: 0)
    lock,           \* self.lock: the thread holding it, or "free"
    fg,             \* the foreground thread: the registry call it is in
    adders,         \* threads calling add_schedule at once: where each is
                    \* in the call
    main            \* the main thread: its place in the connection loop, the
                    \* globals connection_failures and last_failure_reset,
                    \* time.time() in seconds and the exit status

registry == <<schedules, file, result, writeFailures, fired, loaded, found>>

worker == <<pc, due, tickRead, seen, returned, calls, armed, missed, tickAt,
            handed, current_time, sleep_seconds>>

threads == <<lock, fg, adders, main>>

vars == <<schedules, file, now, result, writeFailures, fired, loaded, found, pc,
          due, tickRead, seen, returned, calls, armed, missed, tickAt,
          handed, current_time, sleep_seconds, lock, fg, adders,
          main>>

----------------------------------------------------------------------------
(* Bounds of the model *)

MaxDay == 1             \* the clock runs over days 0..MaxDay
MaxRecords == 2         \* Spec: records in the whole registry
MaxWriteFailures == 1   \* failed writes in one run
TicksPerSecond == 2     \* clock resolution below one second

(* Program constants *)

MaxSchedulesPerUser == 5
SecondsPerMinute == 60
MinutesPerHour == 60
HoursPerDay == 24
DaysPerWeek == 7

----------------------------------------------------------------------------
(* Optional values *)

None == {}
Some(x) == {x}
IsNone(o) == o = {}
TheVal(o) == CHOOSE x \in o : TRUE

----------------------------------------------------------------------------
(* str.strip(), str.startswith(), on sequences of characters or pieces *)

Whitespace == {" "}

RECURSIVE LStrip(_)
LStrip(s) ==
    IF s # <<>> /\ Head(s) \in Whitespace THEN LStrip(Tail(s)) ELSE s

RECURSIVE RStrip(_)
RStrip(s) ==
    IF s # <<>> /\ s[Len(s)] \in Whitespace
    THEN RStrip(SubSeq(s, 1, Len(s) - 1))
    ELSE s

Strip(s) == RStrip(LStrip(s))

StartsWith(s, c) == s # <<>> /\ s[1] = c

----------------------------------------------------------------------------
(* datetime.strptime(time_str, '%H:%M').time() and time.strftime('%H:%M') *)

Digits == <<"0", "1", "2", "3", "4", "5", "6", "7", "8", "9">>

IsDigit(c) == \E i \in 1..10 : Digits[i] = c

DigitVal(c) == (CHOOSE i \in 1..10 : Digits[i] = c) - 1

\* %H matches 2[0-3] | [0-1]\d | \d
HourField(s) ==
    \/ Len(s) = 2 /\ s[1] = "2" /\ s[2] \in {"0", "1", "2", "3"}
    \/ Len(s) = 2 /\ s[1] \in {"0", "1"} /\ IsDigit(s[2])
    \/ Len(s) = 1 /\ IsDigit(s[1])

\* %M matches [0-5]\d | \d
MinuteField(s) ==
    \/ Len(s) = 2 /\ s[1] \in {"0", "1", "2", "3", "4", "5"} /\ IsDigit(s[2])
    \/ Len(s) = 1 /\ IsDigit(s[1])

NumVal(s) ==
    IF Len(s) = 1 THEN DigitVal(s[1])
    ELSE 10 * DigitVal(s[1]) + DigitVal(s[2])

\* None stands for the ValueError strptime raises
ParseTime(text) ==
    LET splits == {i \in 1..Len(text) :
                      /\ text[i] = ":"
                      /\ HourField(SubSeq(text, 1, i - 1))
                      /\ MinuteField(SubSeq(text, i + 1, Len(text)))}
    IN  IF splits = {} THEN None
        ELSE LET i == CHOOSE j \in splits : TRUE
             IN  Some([hour |-> NumVal(SubSeq(text, 1, i - 1)),
                       minute |-> NumVal(SubSeq(text, i + 1, Len(text)))])

\* time.isoformat() in place of strftime('%H:%M')
FormatTime_WithSeconds(t) ==
    <<Digits[(t.hour \div 10) + 1], Digits[(t.hour % 10) + 1], ":",
      Digits[(t.minute \div 10) + 1], Digits[(t.minute % 10) + 1],
      ":", "0", "0">>

\* schedule['time'].strftime('%H:%M')
FormatTime(t) ==
    <<Digits[(t.hour \div 10) + 1], Digits[(t.hour % 10) + 1], ":",
      Digits[(t.minute \div 10) + 1], Digits[(t.minute % 10) + 1]>>

----------------------------------------------------------------------------
(* Recurrence text.  A text is a sequence of pieces: a piece is "," or " " *)
(* or a maximal run of other characters (a word).                          *)

SpanishWeekdays ==
    [lunes |-> 0, martes |-> 1, miercoles |-> 2, jueves |-> 3,
     viernes |-> 4, sabado |-> 5, domingo |-> 6]

AllWeekdays == <<0, 1, 2, 3, 4, 5, 6>>

AllWeekdayNames ==
    <<"lunes", "martes", "miercoles", "jueves", "viernes", "sabado",
      "domingo">>

\* str.lower() on one piece
LowerPiece(p) ==
    CASE p = "LUNES" -> "lunes"
      [] p = "Miercoles" -> "miercoles"
      [] p = "ALL" -> "all"
      [] p = "All" -> "all"
      [] OTHER -> p

Lower(s) == [i \in 1..Len(s) |-> LowerPiece(s[i])]

\* weekdays.split(',') with the empty pieces dropped
RECURSIVE SplitComma_DropEmpty(_, _)
SplitComma_DropEmpty(s, cur) ==
    IF s = <<>> THEN (IF cur = <<>> THEN <<>> ELSE <<cur>>)
    ELSE IF Head(s) = ","
    THEN (IF cur = <<>> THEN <<>> ELSE <<cur>>)
         \o SplitComma_DropEmpty(Tail(s), <<>>)
    ELSE SplitComma_DropEmpty(Tail(s), Append(cur, Head(s)))

\* str.split(',')
RECURSIVE SplitComma(_, _)
SplitComma(s, cur) ==
    IF s = <<>> THEN <<cur>>
    ELSE IF Head(s) = "," THEN <<cur>> \o SplitComma(Tail(s), <<>>)
    ELSE SplitComma(Tail(s), Append(cur, Head(s)))

\* day.strip().lower() for one comma-separated token
DayName(token) == Lower(Strip(token))

\* day_name in self.SPANISH_WEEKDAYS: the token is one word, a key of the table
IsWeekdayName(name) == Len(name) = 1 /\ name[1] \in DOMAIN SpanishWeekdays

\* lines 89-109 of add_schedule: ok = FALSE is the 'Dia invalido' return
ParseWeekdays(weekdays) ==
    IF IsNone(weekdays) \/ TheVal(weekdays) = <<>>
    THEN [ok |-> TRUE, parsed |-> None, names |-> <<>>, bad |-> <<>>]
    ELSE LET text == TheVal(weekdays)
             weekdays_input == Lower(Strip(text))
         IN  IF weekdays_input = <<"all">>
             THEN [ok |-> TRUE, parsed |-> Some(AllWeekdays),
                   names |-> AllWeekdayNames, bad |-> <<>>]
             ELSE LET tokens == SplitComma(text, <<>>)
                      names == [i \in 1..Len(tokens) |-> DayName(tokens[i])]
                      badAt == {i \in 1..Len(names) : ~IsWeekdayName(names[i])}
                  IN  IF badAt # {}
                      THEN [ok |-> FALSE, parsed |-> None, names |-> <<>>,
                            bad |-> names[CHOOSE i \in badAt :
                                             \A j \in badAt : i <= j]]
                      ELSE [ok |-> TRUE,
                            parsed |-> Some([i \in 1..Len(names) |->
                                              SpanishWeekdays[names[i][1]]]),
                            names |-> [i \in 1..Len(names) |-> names[i][1]],
                            bad |-> <<>>]

----------------------------------------------------------------------------
(* self.schedules: a dict in insertion order *)

HasUser(m, u) == \E i \in 1..Len(m) : m[i].user_id = u

UserIndex(m, u) == CHOOSE i \in 1..Len(m) : m[i].user_id = u

UserList(m, u) == m[UserIndex(m, u)].list

\* self.schedules[user_id] = []  (lines 112-113)
EnsureUser(m, u) ==
    IF HasUser(m, u) THEN m ELSE Append(m, [user_id |-> u, list |-> <<>>])

\* one list shared by all the users
SetUserList_Everyone(m, u, l) == [i \in 1..Len(m) |-> [m[i] EXCEPT !.list = l]]

\* self.schedules[user_id] holds the list l
SetUserList(m, u, l) == [m EXCEPT ![UserIndex(m, u)].list = l]

----------------------------------------------------------------------------
(* save_schedules: the JSON document written for a mapping *)

SerializeSchedule(s) == [s EXCEPT !.time = FormatTime(s.time)]

Serialize(m) ==
    [i \in 1..Len(m) |->
        [user_id |-> m[i].user_id,
         list |-> [j \in 1..Len(m[i].list) |->
                      SerializeSchedule(m[i].list[j])]]]

\* contents of the backing file
FileMissing == [state |-> "missing", data |-> <<>>]
FileCorrupt == [state |-> "corrupt", data |-> <<>>]
FileWith(m) == [state |-> "ok", data |-> Serialize(m)]

\* outcomes of save_schedules
\*   "ok":      the file is rewritten with the whole mapping
\*   "noopen":  open() raises, the file keeps its contents
\*   "partial": the write raises after open() truncated the file
SaveOutcomes == {"ok", "noopen", "partial"}

\* a write that keeps what the file held and adds the mapping to it
Saved_KeepOld(m, f, outcome) ==
    CASE outcome = "ok" ->
             [state |-> "ok",
              data |-> (IF f.state = "ok" THEN f.data ELSE <<>>)
                          \o Serialize(m)]
      [] outcome = "noopen" -> f
      [] outcome = "partial" -> FileCorrupt

\* lines 62-63: open(self.data_file, 'w') and json.dump of the whole mapping
Saved(m, f, outcome) ==
    CASE outcome = "ok" -> FileWith(m)
      [] outcome = "noopen" -> f
      [] outcome = "partial" -> FileCorrupt

\* line 67 left out: the error of the write leaves save_schedules
SaveRaises_Uncaught(outcome) == outcome # "ok"

\* lines 55-68: whatever the write does, save_schedules catches it and
\* returns normally
SaveRaises(outcome) == FALSE

----------------------------------------------------------------------------
(* load_schedules: the mapping a new ScheduleManager reads from the file *)

\* lines 46-48 for one user's list: ok = FALSE when strptime raises on the
\* time text of a schedule, list = the schedules appended before that
RECURSIVE LoadList(_, _)
LoadList(l, acc) ==
    IF l = <<>> THEN [ok |-> TRUE, list |-> acc]
    ELSE LET schedule_time == ParseTime(Head(l).time)
         IN  IF IsNone(schedule_time) THEN [ok |-> FALSE, list |-> acc]
             ELSE LoadList(Tail(l),
                           Append(acc, [Head(l) EXCEPT
                                           !.time = TheVal(schedule_time)]))

\* lines 44-48: the users in the order of the file; m is self.schedules as
\* the loop has filled it when it ends or raises
RECURSIVE LoadUsers(_, _)
LoadUsers(data, acc) ==
    IF data = <<>> THEN [ok |-> TRUE, m |-> acc]
    ELSE LET r == LoadList(Head(data).list, <<>>)
             m1 == Append(acc, [user_id |-> Head(data).user_id,
                                list |-> r.list])
         IN  IF r.ok THEN LoadUsers(Tail(data), m1)
             ELSE [ok |-> FALSE, m |-> m1]

\* the constructor without line 35: nothing is loaded
load_schedules_Fresh(f) == <<>>

\* load_schedules without line 51
load_schedules_KeepPartial(f) ==
    IF f.state = "ok" THEN LoadUsers(f.data, <<>>).m ELSE <<>>

\* lines 37-51: a missing file leaves the mapping empty; json.load raising
\* on the file, or strptime on a time text, ends in self.schedules = {}
load_schedules(f) ==
    IF f.state = "ok"
    THEN LET r == LoadUsers(f.data, <<>>)
         IN  IF r.ok THEN r.m ELSE <<>>
    ELSE <<>>

----------------------------------------------------------------------------
(* The wall clock: datetime.now(), counted in ticks from a Monday 00:00 *)

TicksPerMinute == SecondsPerMinute * TicksPerSecond

TicksPerDay == HoursPerDay * MinutesPerHour * TicksPerMinute

\* current_datetime.strftime('%Y-%m-%d'): one string per calendar date
DateStr(t) == t \div TicksPerDay

\* current_datetime.weekday(): 0 = Monday .. 6 = Sunday
Weekday(t) == (t \div TicksPerDay) % DaysPerWeek

MinuteOfDay(t) == (t % TicksPerDay) \div TicksPerMinute

\* current_time.replace(second=0, microsecond=0)
CurrentMinute(t) ==
    [hour |-> MinuteOfDay(t) \div MinutesPerHour,
     minute |-> MinuteOfDay(t) % MinutesPerHour]

TimeAt(day, tm, offset) ==
    day * TicksPerDay
      + (tm.hour * MinutesPerHour + tm.minute) * TicksPerMinute + offset

----------------------------------------------------------------------------
(* Return values *)

Message(text, id, time_str, arg) ==
    [text |-> text, id |-> id, time_str |-> time_str, arg |-> arg]

Failure(op, msg) ==
    [op |-> op, success |-> FALSE, message |-> msg, schedule |-> None,
     list |-> <<>>]

\* before the first call
NoCall ==
    [op |-> "none", args |-> [user_id |-> "", schedule_id |-> 0,
                              req |-> [time_str |-> <<>>, content |-> <<>>,
                                       channel |-> 0, weekdays |-> None]],
     success |-> FALSE, message |-> Message("", 0, <<>>, <<>>),
     schedule |-> None, list |-> <<>>]

----------------------------------------------------------------------------
(* add_schedule *)

Range(s) == {s[i] : i \in 1..Len(s)}

IsActive(s) == s.active

\* line 115, counting only the active schedules
QuotaReached_ActiveOnly(l) ==
    Len(SelectSeq(l, IsActive)) >= MaxSchedulesPerUser

\* line 115: len(self.schedules[user_id]) >= self.max_schedules_per_user
QuotaReached(l) == Len(l) >= MaxSchedulesPerUser

\* line 122, numbering from the active schedules
NextId_ActiveCount(l) == Len(SelectSeq(l, IsActive)) + 1

\* line 122: schedule_id = len(self.schedules[user_id]) + 1
NextId(l) == Len(l) + 1

\* lines 121-135, the channel left at its default
NewSchedule_NoChannel(schedule_id, schedule_time, content, channel, pw) ==
    [id |-> schedule_id,
     time |-> schedule_time,
     content |-> content,
     channel |-> 0,
     is_command |-> StartsWith(Strip(content), "/"),
     active |-> TRUE,
     weekdays |-> pw.parsed,
     weekday_names |-> pw.names,
     is_recurring |-> ~IsNone(pw.parsed),
     executed_dates |-> <<>>]

\* the schedule object of lines 121-135
NewSchedule(schedule_id, schedule_time, content, channel, pw) ==
    [id |-> schedule_id,
     time |-> schedule_time,
     content |-> content,
     channel |-> channel,
     is_command |-> StartsWith(Strip(content), "/"),
     active |-> TRUE,
     weekdays |-> pw.parsed,
     weekday_names |-> pw.names,
     is_recurring |-> ~IsNone(pw.parsed),
     executed_dates |-> <<>>]

\* the success message of lines 140-148
CreatedMessage(schedule_id, time_str, pw) ==
    IF ~IsNone(pw.parsed)
    THEN Message("creado recurrente", schedule_id, time_str,
                 IF Len(TheVal(pw.parsed)) = 7 THEN <<"todos los dias">>
                 ELSE pw.names)
    ELSE Message("creado una vez", schedule_id, time_str, <<>>)

\* add_schedule with lines 112-113 moved before the validation of lines 87-109
add_schedule_EnsureFirst(m, user_id, time_str, content, channel, weekdays) ==
    LET schedule_time == ParseTime(time_str)
        pw == ParseWeekdays(weekdays)
        m1 == EnsureUser(m, user_id)
        schedule_id == NextId(UserList(m1, user_id))
        schedule == NewSchedule(schedule_id, TheVal(schedule_time), content,
                                channel, pw)
    IN  IF IsNone(schedule_time)
        THEN [schedules |-> m1, save |-> FALSE,
              result |-> Failure("add", Message("Formato de hora invalido",
                                                0, <<>>, <<>>))]
        ELSE IF ~pw.ok
        THEN [schedules |-> m1, save |-> FALSE,
              result |-> Failure("add", Message("Dia invalido", 0, <<>>,
                                                pw.bad))]
        ELSE IF QuotaReached(UserList(m1, user_id))
        THEN [schedules |-> m1, save |-> FALSE,
              result |-> Failure("add", Message("Limite alcanzado",
                                                MaxSchedulesPerUser, <<>>,
                                                <<>>))]
        ELSE [schedules |->
                  SetUserList(m1, user_id,
                              Append(UserList(m1, user_id), schedule)),
              save |-> TRUE,
              result |-> [op |-> "add", success |-> TRUE,
                          message |-> CreatedMessage(schedule_id, time_str, pw),
                          schedule |-> Some(schedule), list |-> <<>>]]

\* the body of add_schedule under the lock; save tells whether
\* save_schedules is called
add_schedule(m, user_id, time_str, content, channel, weekdays) ==
    LET schedule_time == ParseTime(time_str)
        pw == ParseWeekdays(weekdays)
        m1 == EnsureUser(m, user_id)
        schedule_id == NextId(UserList(m1, user_id))
        schedule == NewSchedule(schedule_id, TheVal(schedule_time), content,
                                channel, pw)
    IN  IF IsNone(schedule_time)
        THEN [schedules |-> m, save |-> FALSE,
              result |-> Failure("add", Message("Formato de hora invalido",
                                                0, <<>>, <<>>))]
        ELSE IF ~pw.ok
        THEN [schedules |-> m, save |-> FALSE,
              result |-> Failure("add", Message("Dia invalido", 0, <<>>,
                                                pw.bad))]
        ELSE IF QuotaReached(UserList(m1, user_id))
        THEN [schedules |-> m1, save |-> FALSE,
              result |-> Failure("add", Message("Limite alcanzado",
                                                MaxSchedulesPerUser, <<>>,
                                                <<>>))]
        ELSE [schedules |->
                  SetUserList(m1, user_id,
                              Append(UserList(m1, user_id), schedule)),
              save |-> TRUE,
              result |-> [op |-> "add", success |-> TRUE,
                          message |-> CreatedMessage(schedule_id, time_str, pw),
                          schedule |-> Some(schedule), list |-> <<>>]]

----------------------------------------------------------------------------
(* list_schedules *)

\* line 172 without its filter
list_schedules_Unfiltered(m, user_id) ==
    IF ~HasUser(m, user_id) THEN <<>> ELSE UserList(m, user_id)

list_schedules(m, user_id) ==
    IF ~HasUser(m, user_id) THEN <<>>
    ELSE SelectSeq(UserList(m, user_id), IsActive)

----------------------------------------------------------------------------
(* delete_schedule *)

\* line 184 without the test of active
FirstMatch_AnyState(l, schedule_id) ==
    LET hits == {i \in 1..Len(l) : l[i].id = schedule_id}
    IN  IF hits = {} THEN 0
        ELSE CHOOSE i \in hits : \A j \in hits : i <= j

\* the first schedule of the list the loop of lines 183-184 stops at (0: none)
FirstMatch(l, schedule_id) ==
    LET hits == {i \in 1..Len(l) : l[i].id = schedule_id /\ l[i].active}
    IN  IF hits = {} THEN 0
        ELSE CHOOSE i \in hits : \A j \in hits : i <= j

\* line 185 as a removal of the record from the list
Deactivate_Remove(l, i) == SubSeq(l, 1, i - 1) \o SubSeq(l, i + 1, Len(l))

\* line 185 left out
Deactivate_Forgotten(l, i) == l

\* line 185: schedule['active'] = False
Deactivate(l, i) == [l EXCEPT ![i].active = FALSE]

delete_schedule(m, user_id, schedule_id) ==
    IF ~HasUser(m, user_id)
    THEN [schedules |-> m, save |-> FALSE,
          result |-> Failure("delete", Message("No tienes schedules", 0,
                                               <<>>, <<>>))]
    ELSE LET l == UserList(m, user_id)
             i == FirstMatch(l, schedule_id)
         IN  IF i = 0
             THEN [schedules |-> m, save |-> FALSE,
                   result |-> Failure("delete",
                                      Message("no encontrado", schedule_id,
                                              <<>>, <<>>))]
             ELSE [schedules |->
                       SetUserList(m, user_id, Deactivate(l, i)),
                   save |-> TRUE,
                   result |-> [op |-> "delete", success |-> TRUE,
                               message |-> Message("eliminado", schedule_id,
                                                   <<>>, <<>>),
                               schedule |-> None, list |-> <<>>]]

----------------------------------------------------------------------------
(* get_due_schedules *)

\* lines 214-215 without the test of lines 211-212
AtCurrentMinute_IgnoreActive(s, t) == s.time = CurrentMinute(t)

\* lines 211-212 without the test of lines 214-215
AtCurrentMinute_AnyMinute(s, t) == s.active

\* lines 214-215 with the minute compared by <=: a schedule whose minute has
\* passed today is taken up by a later tick
AtCurrentMinute_CatchUp(s, t) ==
    /\ s.active
    /\ s.time.hour * MinutesPerHour + s.time.minute <= MinuteOfDay(t)

\* lines 211-215: the schedule is active and set for the current minute
AtCurrentMinute(s, t) == s.active /\ s.time = CurrentMinute(t)

\* line 218: schedule.get('is_recurring') and schedule.get('weekdays')
RecurringBranch(s) ==
    s.is_recurring /\ ~IsNone(s.weekdays) /\ TheVal(s.weekdays) # <<>>

\* line 218 without the weekday test of line 219
IsDueRecurring_AnyDay(s, t) ==
    AtCurrentMinute(s, t) /\ RecurringBranch(s)

\* lines 218-219
IsDueRecurring(s, t) ==
    /\ AtCurrentMinute(s, t)
    /\ RecurringBranch(s)
    /\ Weekday(t) \in Range(TheVal(s.weekdays))

\* lines 225-228 with a target date, the day the clock starts on
IsDueOneTime_FirstDayOnly(s, t) ==
    /\ AtCurrentMinute(s, t)
    /\ ~RecurringBranch(s)
    /\ ~s.is_recurring
    /\ DateStr(t) \notin Range(s.executed_dates)
    /\ DateStr(t) = 0

\* lines 225-228
IsDueOneTime(s, t) ==
    /\ AtCurrentMinute(s, t)
    /\ ~RecurringBranch(s)
    /\ ~s.is_recurring
    /\ DateStr(t) \notin Range(s.executed_dates)

IsDue(s, t) == IsDueRecurring(s, t) \/ IsDueOneTime(s, t)

\* lines 233-235 without line 236
Consume_KeepActive(s, t) ==
    [s EXCEPT !.executed_dates = Append(@, DateStr(t))]

\* lines 229-230 without lines 233-236: the schedule is taken and left as
\* it was
Consume_Untouched(s, t) == s

\* lines 233-236: mark as executed today and deactivate
Consume(s, t) ==
    [s EXCEPT !.executed_dates = Append(@, DateStr(t)), !.active = FALSE]

\* lines 220-221 and 229-230: schedule.copy() with user_id.  The copy is
\* shallow: a one-time item shares its executed_dates list with the schedule,
\* so the append of line 234 shows in the item; active is copied before
\* line 236 clears it.
DueItem(s, user_id, t) ==
    [id |-> s.id, time |-> s.time, content |-> s.content,
     channel |-> s.channel, is_command |-> s.is_command,
     active |-> s.active, weekdays |-> s.weekdays,
     weekday_names |-> s.weekday_names, is_recurring |-> s.is_recurring,
     executed_dates |-> IF IsDueOneTime(s, t)
                        THEN Append(s.executed_dates, DateStr(t))
                        ELSE s.executed_dates,
     user_id |-> user_id]

\* the inner loop of lines 210-237 run from the newest schedule to the oldest
RECURSIVE DueOfList_NewestFirst(_, _, _)
DueOfList_NewestFirst(l, user_id, t) ==
    IF l = <<>> THEN <<>>
    ELSE DueOfList_NewestFirst(Tail(l), user_id, t)
         \o (IF IsDue(Head(l), t) THEN <<DueItem(Head(l), user_id, t)>>
             ELSE <<>>)

\* the inner loop of lines 210-237 over one user's list
RECURSIVE DueOfList(_, _, _)
DueOfList(l, user_id, t) ==
    IF l = <<>> THEN <<>>
    ELSE (IF IsDue(Head(l), t) THEN <<DueItem(Head(l), user_id, t)>>
          ELSE <<>>) \o DueOfList(Tail(l), user_id, t)

\* the outer loop of line 209, in the dict's order
RECURSIVE DueOfUsers(_, _)
DueOfUsers(m, t) ==
    IF m = <<>> THEN <<>>
    ELSE DueOfList(Head(m).list, Head(m).user_id, t) \o DueOfUsers(Tail(m), t)

\* lines 233-237 applied to every schedule that is due, recurring or not
ScanList_MarkAll(l, t) ==
    [i \in 1..Len(l) |-> IF IsDue(l[i], t) THEN Consume(l[i], t) ELSE l[i]]

\* lines 224-237 over one user's list: the one-time schedules that are due
\* are marked and deactivated
ScanList(l, t) ==
    [i \in 1..Len(l) |-> IF IsDueOneTime(l[i], t) THEN Consume(l[i], t)
                         ELSE l[i]]

\* lines 240-241 left out: the resolver never saves
AnyConsumed_Never(m, t) == FALSE

\* lines 240-241 without the test: the resolver saves at every tick
AnyConsumed_Always(m, t) == TRUE

\* schedules_to_deactivate is not empty
AnyConsumed(m, t) ==
    \E i \in 1..Len(m) : \E j \in 1..Len(m[i].list) :
        IsDueOneTime(m[i].list[j], t)

get_due_schedules(m, t) ==
    [schedules |-> [i \in 1..Len(m) |->
                       [user_id |-> m[i].user_id,
                        list |-> ScanList(m[i].list, t)]],
     save |-> AnyConsumed(m, t),
     result |-> [op |-> "get_due", success |-> TRUE,
                 message |-> Message("", 0, <<>>, <<>>),
                 schedule |-> None, list |-> DueOfUsers(m, t)]]

----------------------------------------------------------------------------
(* ScheduleHandler._handle_list: the recurrence shown for a schedule *)

\* lines 152-161 without the test of the length
RecurrenceDisplay_Names(s) ==
    IF s.is_recurring THEN s.weekday_names ELSE <<"una vez">>

\* lines 152-161: "(todos los dias)", "(<names>)" or "(una vez)"
RecurrenceDisplay(s) ==
    IF s.is_recurring
    THEN IF Len(TheVal(s.weekdays)) = 7 THEN <<"todos los dias">>
         ELSE s.weekday_names
    ELSE <<"una vez">>

----------------------------------------------------------------------------
(* Inputs *)

Users == {"u1", "u2"}

ScheduleIds == 1..(MaxSchedulesPerUser + 1)

T0930 == <<"0", "9", ":", "3", "0">>
T931 == <<"9", ":", "3", "1">>
T2400 == <<"2", "4", ":", "0", "0">>

Ping == <<"/", "p">>
SpacePing == <<" ", "/", "p">>
Agua == <<"a">>

Request(time_str, content, channel, weekdays) ==
    [time_str |-> time_str, content |-> content, channel |-> channel,
     weekdays |-> weekdays]

\* add requests of Spec: one-time, recurring on two days, every day,
\* a bad time and a bad day
AddRequests ==
    {Request(T0930, Ping, 0, None),
     Request(T931, Agua, 1, Some(<<"lunes", ",", " ", "Miercoles">>)),
     Request(T0930, SpacePing, 1, Some(<<" ", "ALL">>)),
     Request(T2400, Ping, 0, None),
     Request(T0930, Agua, 0, Some(<<"lunes", ",", "xx">>))}

\* the instants the clock is looked at: midnight of day 0 (Init), and the
\* last tick of each scheduled minute of each day
ClockTimes == {[hour |-> 9, minute |-> 30], [hour |-> 9, minute |-> 31]}

ClockSamples ==
    {TimeAt(d, tm, TicksPerMinute - 1) : d \in 0..MaxDay, tm \in ClockTimes}

RecordCount(m, u) == IF HasUser(m, u) THEN Len(UserList(m, u)) ELSE 0

TotalRecords(m) ==
    IF m = <<>> THEN 0
    ELSE LET n[i \in 0..Len(m)] ==
                 IF i = 0 THEN 0 ELSE n[i - 1] + Len(m[i].list)
         IN  n[Len(m)]

----------------------------------------------------------------------------
(* Actions of the registry *)

\* what a call gives when an exception leaves save_schedules: add_schedule
\* catches it (lines 161-165); delete_schedule and get_due_schedules do not
Raised(op, args) ==
    [op |-> op, args |-> args, success |-> FALSE,
     message |-> Message(IF op = "add" THEN "Error creando schedule"
                         ELSE "exception", 0, <<>>, <<>>),
     schedule |-> None, list |-> <<>>]

\* the end of a mutating call: the new mapping, save_schedules when the call
\* reaches it (with the outcome of the write), and the value returned
Commit(r, args, outcome) ==
    /\ outcome \in SaveOutcomes
    /\ outcome # "ok" => r.save /\ writeFailures < MaxWriteFailures
    /\ schedules' = r.schedules
    /\ result' = IF r.save /\ SaveRaises(outcome)
                 THEN Raised(r.result.op, args)
                 ELSE [op |-> r.result.op, args |-> args,
                       success |-> r.result.success,
                       message |-> r.result.message,
                       schedule |-> r.result.schedule,
                       list |-> r.result.list]
    /\ file' = IF r.save THEN Saved(r.schedules, file, outcome) ELSE file
    /\ writeFailures' = IF outcome = "ok" THEN writeFailures
                        ELSE writeFailures + 1

NoRequest == Request(<<>>, <<>>, 0, None)

Args(user_id, schedule_id, req) ==
    [user_id |-> user_id, schedule_id |-> schedule_id, req |-> req]

Add(user_id, req, outcome) ==
    /\ Commit(add_schedule(schedules, user_id, req.time_str, req.content,
                           req.channel, req.weekdays),
              Args(user_id, 0, req), outcome)
    /\ UNCHANGED <<now, fired, loaded, found, worker, threads>>

List(user_id) ==
    /\ result' = [op |-> "list", args |-> Args(user_id, 0, NoRequest),
                  success |-> TRUE,
                  message |-> Message("", 0, <<>>, <<>>),
                  schedule |-> None,
                  list |-> list_schedules(schedules, user_id)]
    /\ UNCHANGED <<schedules, file, writeFailures, now, fired, loaded, found, worker,
                   threads>>

Delete(user_id, schedule_id, outcome) ==
    /\ Commit(delete_schedule(schedules, user_id, schedule_id),
              Args(user_id, schedule_id, NoRequest), outcome)
    /\ UNCHANGED <<now, fired, loaded, found, worker, threads>>

DueKeys(items) == {<<items[i].user_id, items[i].id>> : i \in 1..Len(items)}

\* the history of the due sets after one more of them
Fire(items) ==
    [k \in DOMAIN fired |->
        IF k \in DueKeys(items) /\ Len(fired[k]) < 2
        THEN Append(fired[k], DateStr(now))
        ELSE fired[k]]

\* one call of get_due_schedules at the clock's reading
Resolve(outcome) ==
    LET r == get_due_schedules(schedules, now)
    IN  /\ Commit(r, Args("", 0, NoRequest), outcome)
        /\ fired' = Fire(r.result.list)

\* time passes
Advance ==
    /\ \E t \in ClockSamples : t > now /\ now' = t
    /\ UNCHANGED <<registry, worker, threads>>

----------------------------------------------------------------------------
\* the process ends and a new one starts: ScheduleManager() begins with an
\* empty mapping and loads the file (lines 32-35); f is the file it finds
RestartFrom(f) ==
    /\ file' = f
    /\ schedules' = load_schedules(f)
    /\ loaded' = load_schedules(f)
    /\ found' = f
    /\ result' = [op |-> "restart", args |-> Args("", 0, NoRequest),
                  success |-> TRUE, message |-> Message("", 0, <<>>, <<>>),
                  schedule |-> None, list |-> <<>>]
    /\ UNCHANGED <<writeFailures, now, fired, worker, threads>>

\* a restart that finds the file as the old process left it
Restart == RestartFrom(file)

----------------------------------------------------------------------------
(* Spec: any sequence of add, list, delete and resolver calls, the clock   *)
(* moving forward between them; the writes of the store succeed            *)

\* main.py lines 502-503 and 543: no failure counted, the counter reset as
\* the module is loaded, the loop about to connect
MainStart ==
    [pc |-> "connect", connection_failures |-> 0, last_failure_reset |-> 0,
     clock |-> 0, status |-> None]

\* the threads that call add_schedule at once in SpecRace
Adders == {"a", "b"}

\* none of them is in a call
NoAdders ==
    [t \in Adders |-> [pc |-> "idle", req |-> NoRequest, r |-> None]]

\* the foreground thread is in no call of the registry
Idle == [pc |-> "idle", op |-> "none", args |-> Args("", 0, NoRequest),
         r |-> None]

Init ==
    /\ schedules = <<>>
    /\ file = FileMissing
    /\ now = 0
    /\ result = NoCall
    /\ writeFailures = 0
    /\ fired = [k \in Users \X (1..MaxSchedulesPerUser) |-> <<>>]
    /\ loaded = <<>>
    /\ found = FileMissing
    /\ pc = "start"
    /\ due = <<>>
    /\ tickRead = {}
    /\ seen = {}
    /\ returned = {}
    /\ calls = {}
    /\ armed = {}
    /\ missed = {}
    /\ tickAt = now
    /\ handed = <<>>
    /\ current_time = now
    /\ sleep_seconds = 0
    /\ lock = "free"
    /\ fg = Idle
    /\ adders = NoAdders
    /\ main = MainStart

AddStep ==
    \E user_id \in Users, req \in AddRequests :
        /\ TotalRecords(schedules) < MaxRecords
        /\ Add(user_id, req, "ok")

ListStep == \E user_id \in Users : List(user_id)

DeleteStep ==
    \E user_id \in Users, schedule_id \in ScheduleIds :
        Delete(user_id, schedule_id, "ok")

ResolveStep == Resolve("ok") /\ UNCHANGED <<now, loaded, found, worker, threads>>

Next == AddStep \/ ListStep \/ DeleteStep \/ ResolveStep \/ Advance

Spec == Init /\ [][Next]_vars

----------------------------------------------------------------------------
(* SpecQuota: one user fills the quota with one-time schedules at 09:30,   *)
(* another user holds at most MaxOtherRecords; deletes and ticks in        *)
(* between                                                                 *)

MaxOtherRecords == 1

QuotaRequests ==
    {Request(T0930, Ping, 0, None), Request(T2400, Ping, 0, None),
     Request(T0930, Ping, 0, Some(<<"lunes", ",", "xx">>))}

QuotaClockSamples ==
    {TimeAt(d, [hour |-> 9, minute |-> 30], 0) : d \in 0..MaxDay}

QuotaAddStep ==
    \E user_id \in Users, req \in QuotaRequests :
        /\ user_id # "u1" => RecordCount(schedules, user_id) < MaxOtherRecords
        /\ Add(user_id, req, "ok")

QuotaAdvance ==
    /\ \E t \in QuotaClockSamples : t > now /\ now' = t
    /\ UNCHANGED <<registry, worker, threads>>

NextQuota ==
    QuotaAddStep \/ ListStep \/ DeleteStep \/ ResolveStep \/ QuotaAdvance

SpecQuota == Init /\ [][NextQuota]_vars

----------------------------------------------------------------------------
(* schedule_worker: the dispatch loop *)

MaxLag == 1             \* ticks a step may take beyond what it asks for

Max(a, b) == IF a >= b THEN a ELSE b

\* line 490 without the added minute
NextMinute_SameMinute(t) == (t \div TicksPerMinute) * TicksPerMinute

\* line 490: current_time.replace(second=0, microsecond=0)
\*             + timedelta(minutes=1)
NextMinute(t) == (t \div TicksPerMinute + 1) * TicksPerMinute

\* lines 491-492 with a fixed sleep of one second
SleepTicks_OneSecond(t) == TicksPerSecond

\* lines 491-492 without the floor of one second
SleepTicks_NoFloor(t) == NextMinute(t) - t

\* lines 491-492: max(1, (next_minute - current_time).total_seconds())
SleepTicks(t) == Max(1 * TicksPerSecond, NextMinute(t) - t)

\* the <<date, minute>> a clock reading falls in
Pair(t) == <<DateStr(t), MinuteOfDay(t)>>

PairStart(p) == p[1] * TicksPerDay + p[2] * TicksPerMinute

PairEnd(p) == PairStart(p) + TicksPerMinute

\* the schedule is armed for the minute mi of date d: active, set for that
\* minute and, if recurring, for that weekday
Armed(s, d, mi) ==
    /\ s.active
    /\ s.time.hour * MinutesPerHour + s.time.minute = mi
    /\ s.is_recurring => (d % DaysPerWeek) \in Range(TheVal(s.weekdays))

ArmedKeys(m, d, mi) ==
    {<<m[x[1]].user_id, m[x[1]].list[x[2]].id, d, mi>> :
        x \in {y \in (1..Len(m)) \X (1..(MaxSchedulesPerUser + 1)) :
                  /\ y[2] <= Len(m[y[1]].list)
                  /\ Armed(m[y[1]].list[y[2]], d, mi)}}

\* counting up to two in a history set
Bump(h, keys) ==
    h \cup {k \o <<1>> : k \in keys}
      \cup {k \o <<2>> : k \in {x \in keys : x \o <<1>> \in h}}

Keys(h) == {SubSeq(e, 1, Len(e) - 1) : e \in h}

PendingKeys(q) ==
    {<<q[i].item.user_id, q[i].item.id, q[i].date, q[i].minute>> :
        i \in 1..Len(q)}

\* the minutes of the day schedules are set for in SpecLoop, and the part of
\* each day the loop is followed through: from the minute before them to the
\* minute after them
LoopTimes == {[hour |-> 9, minute |-> 30], [hour |-> 9, minute |-> 31]}

CandidatePairs ==
    {<<d, tm.hour * MinutesPerHour + tm.minute>> :
        d \in 0..MaxDay, tm \in LoopTimes}

WindowStart(d) == TimeAt(d, [hour |-> 9, minute |-> 29], 0)

WindowEnd(d) == TimeAt(d, [hour |-> 9, minute |-> 32], 0)

\* the clock moves to t; the occurrences whose minute begins are armed, and
\* those whose minute ends with the schedule still armed, no call made (c:
\* the calls so far) and none pending (q: the items not yet handed over) are
\* missed
TimePasses(t, c, q) ==
    /\ now' = t
    /\ LET entered == {p \in CandidatePairs :
                          now < PairStart(p) /\ PairStart(p) <= t}
           left == {p \in CandidatePairs :
                       now < PairEnd(p) /\ PairEnd(p) <= t}
           newArmed == UNION {ArmedKeys(schedules, p[1], p[2]) :
                                 p \in entered}
       IN  /\ armed' = armed \cup newArmed
           /\ missed' = missed \cup
                  {k \in armed \cup newArmed :
                      /\ <<k[3], k[4]>> \in left
                      /\ k \in ArmedKeys(schedules, k[3], k[4])
                      /\ k \notin Keys(c)
                      /\ k \notin PendingKeys(q)}

\* execute_scheduled_content (lines 400-467) under the conditions env it
\* meets: what it logs, and whether an exception leaves it
ExecutorEnvs == {"ok", "unhealthy", "send_fails", "raises"}

\* lines 402-467 without the except clause of lines 460-467
execute_scheduled_content_Uncaught(content, env) ==
    IF env = "unhealthy"
    THEN [outcome |-> "no_healthy_interface", raised |-> FALSE]
    ELSE IF env = "raises"
    THEN [outcome |-> "schedule_execution_error", raised |-> TRUE]
    ELSE IF StartsWith(Strip(content), "/")
    THEN [outcome |-> "schedule_command_executed", raised |-> FALSE]
    ELSE IF env = "send_fails"
    THEN [outcome |-> "schedule_reminder_failed", raised |-> FALSE]
    ELSE [outcome |-> "schedule_reminder_executed", raised |-> FALSE]

\* lines 402-467: no healthy interface (403-410), an exception anywhere in
\* the body (460-467), a command handed to its handler, which answers for
\* its own sending (412-437), a reminder sent or not (438-458)
execute_scheduled_content(content, env) ==
    IF env = "unhealthy"
    THEN [outcome |-> "no_healthy_interface", raised |-> FALSE]
    ELSE IF env = "raises"
    THEN [outcome |-> "schedule_execution_error", raised |-> FALSE]
    ELSE IF StartsWith(Strip(content), "/")
    THEN [outcome |-> "schedule_command_executed", raised |-> FALSE]
    ELSE IF env = "send_fails"
    THEN [outcome |-> "schedule_reminder_failed", raised |-> FALSE]
    ELSE [outcome |-> "schedule_reminder_executed", raised |-> FALSE]

\* no except clause at lines 494-499: the thread ends with the exception
OnError_ThreadEnds(p) == "done"

\* lines 494-499: an exception inside the try block of the loop, raised at
\* position p, is caught and the loop goes to its fallback sleep
OnError(p) == "except"

\* line 478: due_schedules = schedule_manager.get_due_schedules()
Tick ==
    /\ pc = "resolve"
    /\ Commit(get_due_schedules(schedules, now), Args("", 0, NoRequest), "ok")
    /\ LET items == get_due_schedules(schedules, now).result.list
           p == Pair(now)
       IN  /\ due' = [i \in 1..Len(items) |->
                         [item |-> items[i], date |-> p[1], minute |-> p[2]]]
           /\ pc' = IF items = <<>> THEN "sleep" ELSE "dispatch"
    /\ tickAt' = now
    /\ handed' = <<>>
    /\ UNCHANGED <<now, loaded, found, current_time, sleep_seconds, threads>>

\* the tick, with the histories of the loop
WorkerResolve ==
    /\ Tick
    /\ fired' = Fire(get_due_schedules(schedules, now).result.list)
    /\ LET items == get_due_schedules(schedules, now).result.list
           p == Pair(now)
       IN  /\ tickRead' = Bump(tickRead, {p})
           /\ seen' = seen \cup ArmedKeys(schedules, p[1], p[2])
           /\ returned' =
                  Bump(returned,
                       {<<items[i].user_id, items[i].id, p[1], p[2]>> :
                           i \in 1..Len(items)})
    /\ UNCHANGED <<calls, armed, missed>>

\* lines 480-486: one turn of the for loop, the executor meeting env.  An
\* exception that leaves the executor ends the for loop
Execute(env) ==
    /\ pc = "dispatch"
    /\ LET x == execute_scheduled_content(Head(due).item.content, env)
       IN  /\ handed' = Append(handed, [user_id |-> Head(due).item.user_id,
                                        id |-> Head(due).item.id,
                                        outcome |-> x.outcome])
           /\ due' = IF x.raised THEN <<>> ELSE Tail(due)
           /\ pc' = IF x.raised THEN OnError("dispatch")
                    ELSE IF Tail(due) = <<>> THEN "sleep" ELSE "dispatch"
    /\ UNCHANGED <<registry, tickAt, current_time, sleep_seconds, threads>>

\* the turn of the for loop, with the histories; the call takes d ticks
WorkerDispatch(d, env) ==
    /\ Execute(env)
    /\ calls' = Bump(calls, PendingKeys(<<Head(due)>>))
    /\ TimePasses(now + d, Bump(calls, PendingKeys(<<Head(due)>>)), Tail(due))
    /\ UNCHANGED <<tickRead, seen, returned>>

\* where the loop stands after a sleep that was to end at t: at t within the
\* part of the day followed; past it, the ticks of the rest of the day find
\* nothing due and the loop stands at the start of the next day's part
WakeAt(t) ==
    IF t < WindowEnd(DateStr(now)) THEN t
    ELSE WindowStart(DateStr(now) + 1) + (t % TicksPerSecond)

\* lines 489-492: the clock is read g ticks after the resolver read it
Sleep(g) ==
    /\ pc = "sleep"
    /\ current_time' = now + g
    /\ sleep_seconds' = SleepTicks(now + g)
    /\ pc' = "resolve"
    /\ UNCHANGED <<registry, due, tickAt, handed, threads>>

\* the sleep lasts j ticks longer than asked
WorkerSleep(g, j) ==
    /\ Sleep(g)
    /\ LET wake == WakeAt(now + g + SleepTicks(now + g) + j)
       IN  /\ DateStr(wake) <= MaxDay
           /\ TimePasses(wake, calls, due)
    /\ UNCHANGED <<tickRead, seen, returned, calls>>

\* add requests of SpecLoop: a schedule recurring on Mondays at 09:30 and a
\* one-time schedule at 09:31
LoopRequests ==
    {Request(T0930, Ping, 0, Some(<<"lunes">>)),
     Request(T931, Agua, 1, None)}

\* what a step may take: nothing, up to MaxLag ticks, or a whole minute
Lags == (0..MaxLag) \cup {TicksPerMinute}

InitLoop ==
    /\ schedules = <<>>
    /\ file = FileMissing
    /\ now \in {WindowStart(0), WindowStart(0) + TicksPerMinute - 1}
    /\ result = NoCall
    /\ writeFailures = 0
    /\ fired = [k \in Users \X (1..MaxSchedulesPerUser) |-> <<>>]
    /\ loaded = <<>>
    /\ found = FileMissing
    /\ pc = "resolve"
    /\ due = <<>>
    /\ tickRead = {}
    /\ seen = {}
    /\ returned = {}
    /\ calls = {}
    /\ armed = {}
    /\ missed = {}
    /\ tickAt = now
    /\ handed = <<>>
    /\ current_time = now
    /\ sleep_seconds = 0
    /\ lock = "free"
    /\ fg = Idle
    /\ adders = NoAdders
    /\ main = MainStart

\* the foreground commands of SpecLoop come from one user
LoopAddStep ==
    \E req \in LoopRequests :
        /\ TotalRecords(schedules) < MaxRecords
        /\ Add("u1", req, "ok")

LoopDeleteStep ==
    \E schedule_id \in 1..MaxRecords : Delete("u1", schedule_id, "ok")

WorkerDispatchStep == \E d \in Lags : WorkerDispatch(d, "ok")

WorkerSleepStep == \E g \in 0..MaxLag, j \in Lags : WorkerSleep(g, j)

NextLoop ==
    \/ LoopAddStep
    \/ LoopDeleteStep
    \/ WorkerResolve
    \/ WorkerDispatchStep
    \/ WorkerSleepStep

SpecLoop == InitLoop /\ [][NextLoop]_vars

----------------------------------------------------------------------------
(* SpecExec: the loop with an executor that may fail.  Two users add        *)
(* schedules for 09:30, a command recurring every day and a one-time        *)
(* reminder; the steps of the loop take no time beyond what they ask for    *)

MaxExecRecords == 3     \* SpecExec: records in the whole registry

ExecRequests ==
    {Request(T0930, Ping, 0, Some(<<"all">>)),
     Request(T0930, Agua, 1, None)}

ExecAddStep ==
    \E user_id \in Users, req \in ExecRequests :
        /\ TotalRecords(schedules) < MaxExecRecords
        /\ Add(user_id, req, "ok")

ExecDispatchStep == \E env \in ExecutorEnvs : WorkerDispatch(0, env)

ExecSleepStep == WorkerSleep(0, 0)

NextExec ==
    \/ ExecAddStep
    \/ WorkerResolve
    \/ ExecDispatchStep
    \/ ExecSleepStep

SpecExec == InitLoop /\ [][NextExec]_vars

(* SpecLive: the loop for ever.  The schedules are for every day or for   *)
(* once, so that the resolver reads the time of day alone (the date only   *)
(* to compare it with the dates of consumption, which an active schedule   *)
(* has none of), and the days are counted modulo LiveDays.  A tick or a    *)
(* turn of the for loop may raise; the thread of the loop is scheduled     *)
(* again and again                                                         *)

LiveDays == 2           \* SpecLive: the clock runs over days 0..LiveDays-1

FallbackSleepSeconds == 60

\* get_due_schedules interrupted by an exception when it comes to the j-th
\* record of the i-th user: the records before it are scanned and flagged
\* (lines 209-237), nothing is saved or returned
ScanUntil(m, t, i, j) ==
    [x \in 1..Len(m) |->
        [user_id |-> m[x].user_id,
         list |-> [y \in 1..Len(m[x].list) |->
                      IF (x < i \/ (x = i /\ y < j))
                         /\ IsDueOneTime(m[x].list[y], t)
                      THEN Consume(m[x].list[y], t)
                      ELSE m[x].list[y]]]]

\* where the loop stands after a sleep that was to end at t, the days
\* counted modulo LiveDays
LiveWake(t) ==
    IF t < WindowEnd(DateStr(now)) THEN t
    ELSE WindowStart((DateStr(now) + 1) % LiveDays) + (t % TicksPerSecond)

histories == <<tickRead, seen, returned, calls, armed, missed>>

LiveTick == Tick /\ UNCHANGED <<fired, histories>>

\* line 478 raises
LiveTickRaises ==
    /\ pc = "resolve"
    /\ \E i \in 1..(Len(schedules) + 1), j \in 1..MaxRecords :
           schedules' = ScanUntil(schedules, now, i, j)
    /\ result' = Raised("get_due", Args("", 0, NoRequest))
    /\ pc' = OnError("resolve")
    /\ tickAt' = now
    /\ handed' = <<>>
    /\ UNCHANGED <<file, writeFailures, fired, loaded, found, now, due, histories,
                   current_time, sleep_seconds, threads>>

LiveDispatch == \E env \in ExecutorEnvs : Execute(env) /\ UNCHANGED <<now, histories>>

\* lines 481-486 raise outside the executor: the rest of the for loop is
\* left
LiveDispatchRaises ==
    /\ pc = "dispatch"
    /\ due' = <<>>
    /\ pc' = OnError("dispatch")
    /\ UNCHANGED <<registry, now, histories, tickAt, handed, current_time,
                   sleep_seconds, threads>>

LiveSleep ==
    /\ Sleep(0)
    /\ now' = LiveWake(now + SleepTicks(now))
    /\ UNCHANGED histories

\* lines 494-499: time.sleep(60) and back to the head of the loop
LiveExcept ==
    /\ pc = "except"
    /\ now' = LiveWake(now + FallbackSleepSeconds * TicksPerSecond)
    /\ pc' = "resolve"
    /\ UNCHANGED <<registry, due, histories, tickAt, handed, current_time,
                   sleep_seconds, threads>>

LiveWorker ==
    \/ LiveTick
    \/ LiveTickRaises
    \/ LiveDispatch
    \/ LiveDispatchRaises
    \/ LiveSleep
    \/ LiveExcept

\* the foreground adds schedules for 09:30: one for every day, one for once
LiveRequests ==
    {Request(T0930, Ping, 0, Some(<<"all">>)),
     Request(T0930, Agua, 1, None)}

LiveAddStep ==
    \E req \in LiveRequests :
        /\ TotalRecords(schedules) < MaxRecords
        /\ Add("u1", req, "ok")

NextLive == LiveAddStep \/ LiveWorker

SpecLive == InitLoop /\ [][NextLive]_vars /\ WF_vars(LiveWorker)

----------------------------------------------------------------------------
(* SpecLock: the calls of the registry step by step.  The foreground       *)
(* thread (the command handlers) and the thread of the loop each take      *)
(* self.lock, change the mapping, save and release; the steps of the two   *)
(* interleave in any way the lock allows.  Clock and requests as in        *)
(* SpecLive                                                                *)

\* save_schedules taking self.lock for itself: it waits while the lock is
\* held
SaveWaitsFor_Lock(l) == l # "free"

\* lines 53-68: save_schedules takes no lock; it runs inside the with block
\* of its caller and waits for nothing
SaveWaitsFor(l) == FALSE

\* with self.lock entered without waiting for the lock
CanAcquire_NoWait(l) == TRUE

\* lines 84, 176, 199: with self.lock blocks until the lock is free
CanAcquire(l) == l = "free"

\* the result of the registry call the foreground thread is in
FgResult(m) ==
    IF fg.op = "add"
    THEN add_schedule(m, fg.args.user_id, fg.args.req.time_str,
                      fg.args.req.content, fg.args.req.channel,
                      fg.args.req.weekdays)
    ELSE delete_schedule(m, fg.args.user_id, fg.args.schedule_id)

\* lines 84 and 176: the call takes the lock
FgEnter(op, args) ==
    /\ fg.pc = "idle"
    /\ CanAcquire(lock)
    /\ lock' = "fg"
    /\ fg' = [pc |-> "locked", op |-> op, args |-> args, r |-> None]
    /\ UNCHANGED <<registry, now, worker, adders, main>>

\* lines 85-137 and 177-185: the call changes the mapping in memory
FgApply ==
    /\ fg.pc = "locked"
    /\ schedules' = FgResult(schedules).schedules
    /\ fg' = [fg EXCEPT !.pc = "applied", !.r = Some(FgResult(schedules))]
    /\ UNCHANGED <<file, result, writeFailures, fired, loaded, found, now, worker,
                   lock, adders, main>>

\* lines 138-154 and 186-190: the call saves the mapping as it is now, when
\* it changed it, returns and releases the lock
FgReturn ==
    /\ fg.pc = "applied"
    /\ LET r == TheVal(fg.r)
       IN  /\ r.save => ~SaveWaitsFor(lock)
           /\ file' = IF r.save THEN Saved(schedules, file, "ok") ELSE file
           /\ result' = [op |-> r.result.op, args |-> fg.args,
                         success |-> r.result.success,
                         message |-> r.result.message,
                         schedule |-> r.result.schedule,
                         list |-> r.result.list]
    /\ lock' = "free"
    /\ fg' = Idle
    /\ UNCHANGED <<schedules, writeFailures, fired, loaded, found, now, worker, adders, main>>

\* main.py line 478, schedule_manager.py line 199: the tick takes the lock
TickEnter ==
    /\ pc = "resolve"
    /\ CanAcquire(lock)
    /\ lock' = "worker"
    /\ pc' = "scan"
    /\ UNCHANGED <<registry, now, due, histories, tickAt, handed,
                   current_time, sleep_seconds, fg, adders, main>>

\* lines 200-237: the scan of the mapping, flagging the one-time schedules
\* it takes
TickScan ==
    /\ pc = "scan"
    /\ LET r == get_due_schedules(schedules, now)
           p == Pair(now)
       IN  /\ schedules' = r.schedules
           /\ due' = [i \in 1..Len(r.result.list) |->
                         [item |-> r.result.list[i], date |-> p[1],
                          minute |-> p[2]]]
           /\ result' = [op |-> "get_due", args |-> Args("", 0, NoRequest),
                         success |-> TRUE,
                         message |-> r.result.message,
                         schedule |-> None, list |-> r.result.list]
    /\ pc' = "persist"
    /\ tickAt' = now
    /\ handed' = <<>>
    /\ UNCHANGED <<file, writeFailures, fired, loaded, found, now, histories,
                   current_time, sleep_seconds, threads>>

\* lines 239-243: the save when a one-time schedule was taken (the one-time
\* items of the due list are the schedules taken), the return and the
\* release of the lock
TickPersist ==
    /\ pc = "persist"
    /\ (\E i \in 1..Len(due) : ~due[i].item.is_recurring)
          => ~SaveWaitsFor(lock)
    /\ file' = IF \E i \in 1..Len(due) : ~due[i].item.is_recurring
               THEN Saved(schedules, file, "ok")
               ELSE file
    /\ lock' = "free"
    /\ pc' = IF due = <<>> THEN "sleep" ELSE "dispatch"
    /\ UNCHANGED <<schedules, result, writeFailures, fired, loaded, found, now, due,
                   histories, tickAt, handed, current_time, sleep_seconds,
                   fg, adders, main>>

LockAddStep ==
    \E req \in LiveRequests :
        /\ TotalRecords(schedules) < MaxRecords
        /\ FgEnter("add", Args("u1", 0, req))

LockDeleteStep ==
    \E schedule_id \in 1..MaxRecords :
        FgEnter("delete", Args("u1", schedule_id, NoRequest))

LockDispatchStep == Execute("ok") /\ UNCHANGED <<now, histories>>

NextLock ==
    \/ LockAddStep
    \/ LockDeleteStep
    \/ FgApply
    \/ FgReturn
    \/ TickEnter
    \/ TickScan
    \/ TickPersist
    \/ LockDispatchStep
    \/ LiveSleep

SpecLock == InitLoop /\ [][NextLock]_vars

----------------------------------------------------------------------------
----------------------------------------------------------------------------
(* SpecCmd: the loop dispatching scheduled /schedule commands.  A command  *)
(* handed to the executor goes to ScheduleHandler.handle on the thread of  *)
(* the loop, which calls add_schedule, list_schedules or delete_schedule   *)
(* and so takes self.lock again, while the foreground thread adds and      *)
(* deletes.  Clock as in SpecLive                                          *)

MaxCmdRecords == 2

\* str.split(): the words of a text, cut at runs of blanks
RECURSIVE Words(_, _)
Words(s, cur) ==
    IF s = <<>>
    THEN IF cur = <<>> THEN <<>> ELSE <<cur>>
    ELSE IF Head(s) \in Whitespace
    THEN (IF cur = <<>> THEN <<>> ELSE <<cur>>) \o Words(Tail(s), <<>>)
    ELSE Words(Tail(s), Append(cur, Head(s)))

\* ' '.join(content_args)
RECURSIVE JoinBlank(_)
JoinBlank(w) ==
    IF w = <<>> THEN <<>>
    ELSE IF Len(w) = 1 THEN w[1]
    ELSE w[1] \o <<" ">> \o JoinBlank(Tail(w))

\* base_handler.py lines 32-33 for the handler of command 'schedule'
can_handle(message_text) ==
    LET t == Lower(Strip(message_text))
    IN  Len(t) >= 2 /\ t[1] = "/" /\ t[2] = "schedule"

\* the handler returns a text without calling the registry
NoRegistryCall == [op |-> "none", args |-> Args("", 0, NoRequest)]

\* schedule_handler.py lines 119-122: the last argument is "all" or holds
\* a day name
LooksLikeWeekdays(last_arg) ==
    LET l == Lower(last_arg)
    IN  l = <<"all">> \/ \E i \in 1..Len(l) : l[i] \in Range(AllWeekdayNames)

\* schedule_handler.py lines 105-131: the call of add_schedule _handle_add
\* makes
handle_add(args, user_id, channel) ==
    IF Len(args) < 2 THEN NoRegistryCall
    ELSE LET rest == Tail(args)
             takes == Len(rest) > 1 /\ LooksLikeWeekdays(rest[Len(rest)])
             weekdays == IF takes THEN Some(rest[Len(rest)]) ELSE None
             content_args == IF takes THEN SubSeq(rest, 1, Len(rest) - 1)
                             ELSE rest
             content == JoinBlank(content_args)
         IN  IF Strip(content) = <<>> THEN NoRegistryCall
             ELSE [op |-> "add",
                   args |-> Args(user_id, 0,
                                 Request(args[1], content, channel,
                                         weekdays))]

\* schedule_handler.py lines 168-183: int(args[0]) of one or two digits;
\* anything else stands for the ValueError of line 182
handle_delete(args, user_id) ==
    IF args = <<>> THEN NoRegistryCall
    ELSE IF /\ Len(args[1]) \in {1, 2}
            /\ \A i \in 1..Len(args[1]) : IsDigit(args[1][i])
    THEN [op |-> "delete",
          args |-> Args(user_id, NumVal(args[1]), NoRequest)]
    ELSE NoRegistryCall

\* schedule_handler.py lines 30-73: the registry call handle makes for a
\* message text
handle(message_text, user_id, channel) ==
    LET message_parts == Words(Strip(message_text), <<>>)
    IN  IF Len(message_parts) < 2 THEN NoRegistryCall
        ELSE LET subcommand == Lower(message_parts[2])
                 args == SubSeq(message_parts, 3, Len(message_parts))
             IN  IF subcommand = <<"add">>
                 THEN handle_add(args, user_id, channel)
                 ELSE IF subcommand = <<"list">>
                 THEN [op |-> "list", args |-> Args(user_id, 0, NoRequest)]
                 ELSE IF subcommand \in {<<"del">>, <<"delete">>}
                 THEN handle_delete(args, user_id)
                 ELSE NoRegistryCall

\* main.py lines 403-437: the registry call the executor ends in for a due
\* item, under the conditions env
ScheduledCall(item, env) ==
    IF /\ env = "ok"
       /\ StartsWith(Strip(item.content), "/")
       /\ can_handle(item.content)
    THEN handle(item.content, item.user_id, item.channel)
    ELSE NoRegistryCall

\* the registry call c on the mapping m
CallResult(m, c) ==
    IF c.op = "add"
    THEN add_schedule(m, c.args.user_id, c.args.req.time_str,
                      c.args.req.content, c.args.req.channel,
                      c.args.req.weekdays)
    ELSE IF c.op = "delete"
    THEN delete_schedule(m, c.args.user_id, c.args.schedule_id)
    ELSE [schedules |-> m, save |-> FALSE,
          result |-> [op |-> "list", success |-> TRUE,
                      message |-> Message("", 0, <<>>, <<>>),
                      schedule |-> None,
                      list |-> list_schedules(m, c.args.user_id)]]

DelOne == <<"/", "schedule", " ", "del", " ", "1">>
ListCmd == <<" ", "/", "schedule", " ", " ", "list">>
AddCmd == <<"/", "schedule", " ", "add", " ">> \o T0930 \o <<" ">> \o Agua

CmdRequests ==
    {Request(T0930, DelOne, 0, Some(<<"all">>)),
     Request(T0930, ListCmd, 0, None),
     Request(T0930, AddCmd, 1, None)}

CmdAddStep ==
    \E req \in CmdRequests :
        /\ TotalRecords(schedules) < MaxCmdRecords
        /\ FgEnter("add", Args("u1", 0, req))

\* the foreground thread deletes the schedule the scheduled command deletes
CmdDeleteStep == FgEnter("delete", Args("u1", 1, NoRequest))

\* main.py lines 481-486: the executor is called for the next item; a
\* /schedule command goes on to a call of the registry
CmdDispatch(env) ==
    /\ pc = "dispatch"
    /\ \E c \in {ScheduledCall(Head(due).item, env)} :
       IF c.op = "none"
       THEN Execute(env) /\ UNCHANGED <<now, histories>>
       ELSE /\ pc' = "call"
            /\ UNCHANGED <<registry, now, due, histories, tickAt, handed,
                           current_time, sleep_seconds, threads>>

CmdDispatchStep == \E env \in {"ok", "unhealthy"} : CmdDispatch(env)

\* schedule_manager.py lines 84, 169, 176: the call of the handler takes
\* the lock
CmdEnter ==
    /\ pc = "call"
    /\ CanAcquire(lock)
    /\ lock' = "worker"
    /\ pc' = "called"
    /\ UNCHANGED <<registry, now, due, histories, tickAt, handed,
                   current_time, sleep_seconds, fg, adders, main>>

\* the call changes the mapping, saves when it changed it, returns and
\* releases the lock; the handler answers and the for loop goes on
CmdReturn ==
    /\ pc = "called"
    /\ \E c \in {ScheduledCall(Head(due).item, "ok")} :
       \E r \in {CallResult(schedules, c)} :
           /\ r.save => ~SaveWaitsFor(lock)
           /\ schedules' = r.schedules
           /\ file' = IF r.save THEN Saved(r.schedules, file, "ok") ELSE file
           /\ result' = [op |-> r.result.op, args |-> c.args,
                         success |-> r.result.success,
                         message |-> r.result.message,
                         schedule |-> r.result.schedule,
                         list |-> r.result.list]
           /\ handed' = Append(handed,
                               [user_id |-> Head(due).item.user_id,
                                id |-> Head(due).item.id,
                                outcome |-> "schedule_command_executed",
                                call |-> c.op,
                                success |-> r.result.success])
    /\ lock' = "free"
    /\ due' = Tail(due)
    /\ pc' = IF Tail(due) = <<>> THEN "sleep" ELSE "dispatch"
    /\ UNCHANGED <<writeFailures, fired, loaded, found, now, histories, tickAt,
                   current_time, sleep_seconds, fg, adders, main>>

\* the steps of a thread that holds the lock
HolderStep == FgApply \/ FgReturn \/ TickScan \/ TickPersist \/ CmdReturn

\* the steps of the loop that wait for nothing
CmdWorker == TickScan \/ TickPersist \/ CmdDispatchStep \/ CmdReturn \/ LiveSleep

NextCmd ==
    \/ CmdAddStep
    \/ CmdDeleteStep
    \/ FgApply
    \/ FgReturn
    \/ TickEnter
    \/ TickScan
    \/ TickPersist
    \/ CmdDispatchStep
    \/ CmdEnter
    \/ CmdReturn
    \/ LiveSleep

\* both threads run on; a thread blocked at the lock gets it when the lock
\* is free again and again
SpecCmd ==
    /\ InitLoop
    /\ [][NextCmd]_vars
    /\ WF_vars(CmdWorker)
    /\ WF_vars(FgApply \/ FgReturn)
    /\ SF_vars(TickEnter)
    /\ SF_vars(CmdEnter)

----------------------------------------------------------------------------
(* SpecOnce: one user's one-time schedules for 09:30 through the loop, the *)
(* executor failing in every way, the for loop cut short by an exception,  *)
(* and the process restarted from its file                                 *)

MaxOnceRecords == 2

OnceRequests ==
    {Request(T0930, Agua, 0, None),
     Request(T0930, Ping, 1, None)}

OnceAddStep ==
    \E req \in OnceRequests :
        /\ TotalRecords(schedules) < MaxOnceRecords
        /\ Add("u1", req, "ok")

\* main.py lines 494-499: time.sleep(60) and back to the head of the loop
OnceExcept ==
    /\ pc = "except"
    /\ LET wake == WakeAt(now + FallbackSleepSeconds * TicksPerSecond)
       IN  /\ DateStr(wake) <= MaxDay
           /\ TimePasses(wake, calls, due)
    /\ pc' = "resolve"
    /\ UNCHANGED <<registry, due, tickRead, seen, returned, calls, tickAt,
                   handed, current_time, sleep_seconds, threads>>

\* the process ends where it stands and starts again: __init__ loads the
\* file and the loop starts at its head
OnceRestart ==
    /\ schedules' = load_schedules(file)
    /\ loaded' = load_schedules(file)
    /\ found' = file
    /\ result' = [op |-> "restart", args |-> Args("", 0, NoRequest),
                  success |-> TRUE, message |-> Message("", 0, <<>>, <<>>),
                  schedule |-> None, list |-> <<>>]
    /\ pc' = "resolve"
    /\ due' = <<>>
    /\ handed' = <<>>
    /\ UNCHANGED <<file, writeFailures, fired, now, histories, tickAt,
                   current_time, sleep_seconds, threads>>

NextOnce ==
    \/ OnceAddStep
    \/ WorkerResolve
    \/ ExecDispatchStep
    \/ LiveDispatchRaises
    \/ OnceExcept
    \/ ExecSleepStep
    \/ OnceRestart

SpecOnce == InitLoop /\ [][NextOnce]_vars

----------------------------------------------------------------------------
(* SpecRace: the threads of Adders call add_schedule for the same user at  *)
(* once, each call step by step: the wait for self.lock, the validation,   *)
(* quota test and numbering, the append, and the save with the release of  *)
(* the lock                                                                *)

RaceRequests ==
    {Request(T0930, Ping, 0, None),
     Request(T0930, Agua, 1, Some(<<"all">>))}

\* the thread calls add_schedule and stands at line 84
RaceCall(t, req) ==
    /\ adders[t].pc = "idle"
    /\ adders' = [adders EXCEPT ![t] = [pc |-> "waiting", req |-> req,
                                        r |-> None]]
    /\ UNCHANGED <<registry, now, worker, lock, fg, main>>

\* line 84: with self.lock
RaceEnter(t) ==
    /\ adders[t].pc = "waiting"
    /\ CanAcquire(lock)
    /\ lock' = t
    /\ adders' = [adders EXCEPT ![t].pc = "locked"]
    /\ UNCHANGED <<registry, now, worker, fg, main>>

\* lines 85-135: validation, the user's list made when missing, the quota
\* test and the schedule object with its id, from the mapping as it is; a
\* call that fails returns here and releases the lock
RaceCheck(t) ==
    /\ adders[t].pc = "locked"
    /\ LET req == adders[t].req
           r == add_schedule(schedules, "u1", req.time_str, req.content,
                             req.channel, req.weekdays)
       IN  IF r.result.success
           THEN /\ schedules' = EnsureUser(schedules, "u1")
                /\ adders' = [adders EXCEPT ![t].pc = "built",
                                            ![t].r = Some(r.result)]
                /\ UNCHANGED <<result, lock>>
           ELSE /\ schedules' = r.schedules
                /\ result' = [op |-> "add", args |-> Args("u1", 0, req),
                              success |-> FALSE,
                              message |-> r.result.message,
                              schedule |-> None, list |-> <<>>]
                /\ lock' = "free"
                /\ adders' = [adders EXCEPT ![t] = NoAdders[t]]
    /\ UNCHANGED <<file, writeFailures, fired, loaded, found, now, worker, fg, main>>

\* line 137: self.schedules[user_id].append(schedule)
RaceAppend(t) ==
    /\ adders[t].pc = "built"
    /\ schedules' =
           SetUserList(schedules, "u1",
                       Append(UserList(schedules, "u1"),
                              TheVal(TheVal(adders[t].r).schedule)))
    /\ adders' = [adders EXCEPT ![t].pc = "appended"]
    /\ UNCHANGED <<file, result, writeFailures, fired, loaded, found, now, worker,
                   lock, fg, main>>

\* lines 138-154: save_schedules, the return and the release of the lock
RaceReturn(t) ==
    /\ adders[t].pc = "appended"
    /\ file' = Saved(schedules, file, "ok")
    /\ LET r == TheVal(adders[t].r)
       IN  result' = [op |-> "add", args |-> Args("u1", 0, adders[t].req),
                      success |-> TRUE, message |-> r.message,
                      schedule |-> r.schedule, list |-> <<>>]
    /\ lock' = "free"
    /\ adders' = [adders EXCEPT ![t] = NoAdders[t]]
    /\ UNCHANGED <<schedules, writeFailures, fired, loaded, found, now, worker, fg, main>>

RaceCallStep == \E t \in Adders, req \in RaceRequests : RaceCall(t, req)

RaceEnterStep == \E t \in Adders : RaceEnter(t)

RaceCheckStep == \E t \in Adders : RaceCheck(t)

RaceAppendStep == \E t \in Adders : RaceAppend(t)

RaceReturnStep == \E t \in Adders : RaceReturn(t)

NextRace ==
    \/ RaceCallStep
    \/ RaceEnterStep
    \/ RaceCheckStep
    \/ RaceAppendStep
    \/ RaceReturnStep

SpecRace == Init /\ [][NextRace]_vars

----------------------------------------------------------------------------
(* SpecStats: get_stats between adds (one of them refused for its day      *)
(* name), deletes and ticks of two users                                   *)

MaxStatsRecords == 3

\* lines 249-252 without the test of s['active']
get_stats_Unfiltered(m) ==
    LET n[i \in 0..Len(m)] ==
            IF i = 0 THEN 0 ELSE n[i - 1] + Len(m[i].list)
    IN  [total_users |-> Len(m),
         total_schedules |-> n[Len(m)],
         max_per_user |-> MaxSchedulesPerUser]

\* lines 245-258
get_stats(m) ==
    LET n[i \in 0..Len(m)] ==
            IF i = 0 THEN 0
            ELSE n[i - 1] + Len(SelectSeq(m[i].list, IsActive))
    IN  [total_users |-> Len(m),
         total_schedules |-> n[Len(m)],
         max_per_user |-> MaxSchedulesPerUser]

Stats ==
    /\ result' = [op |-> "stats", args |-> Args("", 0, NoRequest),
                  success |-> TRUE,
                  message |-> Message("", 0, <<>>, <<>>),
                  schedule |-> None,
                  list |-> <<>>,
                  stats |-> get_stats(schedules)]
    /\ UNCHANGED <<schedules, file, writeFailures, now, fired, loaded, found,
                   worker, threads>>

StatsRequests ==
    {Request(T0930, Ping, 0, None),
     Request(T0930, Ping, 0, Some(<<"lunes">>)),
     Request(T0930, Ping, 0, Some(<<"lunes", ",", "xx">>))}

StatsAddStep ==
    \E user_id \in Users, req \in StatsRequests :
        /\ TotalRecords(schedules) < MaxStatsRecords
        /\ Add(user_id, req, "ok")

StatsDeleteStep ==
    \E user_id \in Users, schedule_id \in 1..MaxStatsRecords :
        Delete(user_id, schedule_id, "ok")

NextStats ==
    \/ StatsAddStep
    \/ StatsDeleteStep
    \/ ResolveStep
    \/ QuotaAdvance
    \/ Stats

SpecStats == Init /\ [][NextStats]_vars

----------------------------------------------------------------------------
(* SpecConn: the main connection loop (main.py lines 501-642).  The clock  *)
(* of the main thread is time.time() in seconds, counted from the load of  *)
(* the module                                                              *)

MAX_FAILURES_BEFORE_RESTART == 10
FAILURE_RESET_INTERVAL == 3600
reconnect_interval == 60

MaxConnMinutes == 130   \* SpecConn: the loop is followed this long
\* the time a connection may stay up before it is lost, in seconds: none,
\* and what brings the next attempt exactly one reset interval, or one
\* second more, after an attempt that failed
Uptimes ==
    {0, FAILURE_RESET_INTERVAL - reconnect_interval,
     FAILURE_RESET_INTERVAL - reconnect_interval + 1}

\* line 523 with > in place of >=
should_restart_process_Above(connection_failures, last_failure_reset, t) ==
    LET reset == t - last_failure_reset > FAILURE_RESET_INTERVAL
        n == (IF reset THEN 0 ELSE connection_failures) + 1
    IN  [connection_failures |-> n,
         last_failure_reset |-> IF reset THEN t
                                ELSE last_failure_reset,
         restart |-> n > MAX_FAILURES_BEFORE_RESTART]

\* lines 507-531: the globals after the call and the value returned
should_restart_process(connection_failures, last_failure_reset, t) ==
    LET reset == t - last_failure_reset > FAILURE_RESET_INTERVAL
        n == (IF reset THEN 0 ELSE connection_failures) + 1
    IN  [connection_failures |-> n,
         last_failure_reset |-> IF reset THEN t
                                ELSE last_failure_reset,
         restart |-> n >= MAX_FAILURES_BEFORE_RESTART]

\* lines 546-560: create_connection returns False; the loop asks
\* should_restart_process and exits with status 1 or goes to its sleep
ConnectFails ==
    /\ main.pc = "connect"
    /\ LET r == should_restart_process(main.connection_failures,
                                       main.last_failure_reset, main.clock)
       IN  main' = [main EXCEPT
                       !.connection_failures = r.connection_failures,
                       !.last_failure_reset = r.last_failure_reset,
                       !.pc = IF r.restart THEN "exited" ELSE "retry",
                       !.status = IF r.restart THEN Some(1) ELSE None]
    /\ UNCHANGED <<registry, now, worker, lock, fg, adders>>

\* line 559: time.sleep(reconnect_interval) and continue
RetrySleep ==
    /\ main.pc = "retry"
    /\ main.clock + reconnect_interval <= MaxConnMinutes * SecondsPerMinute
    /\ main' = [main EXCEPT !.clock = @ + reconnect_interval,
                            !.pc = "connect"]
    /\ UNCHANGED <<registry, now, worker, lock, fg, adders>>

\* lines 546 and 562-565: create_connection returns True
ConnectOk ==
    /\ main.pc = "connect"
    /\ main' = [main EXCEPT !.pc = "monitor"]
    /\ UNCHANGED <<registry, now, worker, lock, fg, adders>>

\* lines 567-629: the monitoring loop runs for up seconds until the
\* connection is lost; cleanup, time.sleep(reconnect_interval) and back to
\* the head of the loop
ConnectionLost(up) ==
    /\ main.pc = "monitor"
    /\ main.clock + up + reconnect_interval
          <= MaxConnMinutes * SecondsPerMinute
    /\ main' = [main EXCEPT !.clock = @ + up + reconnect_interval,
                            !.pc = "connect"]
    /\ UNCHANGED <<registry, now, worker, lock, fg, adders>>

\* lines 631-635 and 644-655: KeyboardInterrupt ends the loop and the
\* script runs to its end
Shutdown ==
    /\ main.pc \in {"connect", "retry", "monitor"}
    /\ main' = [main EXCEPT !.pc = "stopped", !.status = Some(0)]
    /\ UNCHANGED <<registry, now, worker, lock, fg, adders>>

ConnectionLostStep == \E up \in Uptimes : ConnectionLost(up)

NextConn ==
    \/ ConnectFails
    \/ RetrySleep
    \/ ConnectOk
    \/ ConnectionLostStep
    \/ Shutdown

SpecConn == Init /\ [][NextConn]_vars

----------------------------------------------------------------------------
(* SpecWeek: one user's schedules recurring on Mondays and Wednesdays,     *)
(* resolver calls at 09:30 and 09:31 of the days of more than a week       *)

MaxWeekDay == 7         \* SpecWeek: the clock runs over days 0..MaxWeekDay

WeekRequests ==
    {Request(T931, Agua, 1, Some(<<"lunes", ",", " ", "Miercoles">>))}

WeekClockSamples ==
    {TimeAt(d, tm, 0) : d \in 0..MaxWeekDay, tm \in ClockTimes}

WeekAddStep ==
    \E req \in WeekRequests :
        /\ TotalRecords(schedules) < MaxRecords
        /\ Add("u1", req, "ok")

WeekDeleteStep ==
    \E schedule_id \in 1..MaxRecords : Delete("u1", schedule_id, "ok")

WeekAdvance ==
    /\ \E t \in WeekClockSamples : t > now /\ now' = t
    /\ UNCHANGED <<registry, worker, threads>>

NextWeek == WeekAddStep \/ WeekDeleteStep \/ ResolveStep \/ WeekAdvance

SpecWeek == Init /\ [][NextWeek]_vars

----------------------------------------------------------------------------
(* SpecText: one user adds schedules at 09:30 with recurrence texts of     *)
(* every shape; lists and resolver calls on every day of the week          *)

SevenNames ==
    <<"domingo", ",", "sabado", ",", "viernes", ",", "jueves", ",",
      "Miercoles", ",", "martes", ",", "LUNES">>

\* the name of Monday seven times
SevenMondays ==
    <<"lunes", ",", "lunes", ",", "lunes", ",", "lunes", ",", "lunes", ",",
      "lunes", ",", "lunes">>

TextRequests ==
    {Request(T0930, Ping, 0, Some(<<"all">>)),
     Request(T0930, Ping, 0, Some(SevenNames)),
     Request(T0930, Ping, 0, Some(SevenMondays)),
     Request(T0930, Ping, 0, Some(<<"All", ",", "lunes">>)),
     Request(T0930, Ping, 0, Some(<<"lunes", ",", "xx">>)),
     Request(T0930, Ping, 0, Some(<<"martes">>)),
     Request(T0930, Ping, 0, Some(<<" ">>)),
     Request(T0930, Ping, 0, Some(<<",">>)),
     Request(T0930, Ping, 0, Some(<<>>)),
     Request(T0930, Ping, 0, None),
     Request(T2400, Ping, 0, Some(<<"xx">>))}

TextClockSamples ==
    {TimeAt(d, [hour |-> 9, minute |-> 30], 0) : d \in 0..MaxWeekDay}

TextAddStep ==
    \E req \in TextRequests :
        /\ TotalRecords(schedules) < MaxRecords
        /\ Add("u1", req, "ok")

TextListStep == List("u1")

TextAdvance ==
    /\ \E t \in TextClockSamples : t > now /\ now' = t
    /\ UNCHANGED <<registry, worker, threads>>

NextText == TextAddStep \/ TextListStep \/ ResolveStep \/ TextAdvance

SpecText == Init /\ [][NextText]_vars

----------------------------------------------------------------------------
(* SpecStore: adds, deletes and resolver calls for two users, the writes   *)
(* of the store succeeding, and restarts of the process in between         *)

StoreRequests ==
    {Request(T0930, Ping, 0, None),
     Request(T931, Agua, 1, Some(<<"lunes", ",", " ", "Miercoles">>))}

StoreAddStep ==
    \E user_id \in Users, req \in StoreRequests :
        /\ TotalRecords(schedules) < MaxRecords
        /\ Add(user_id, req, "ok")

StoreDeleteStep ==
    \E user_id \in Users, schedule_id \in 1..MaxRecords :
        Delete(user_id, schedule_id, "ok")

NextStore ==
    StoreAddStep \/ StoreDeleteStep \/ ResolveStep \/ Advance \/ Restart

SpecStore == Init /\ [][NextStore]_vars

----------------------------------------------------------------------------
(* SpecFail: adds, deletes and resolver calls whose writes may fail *)

FailRequests ==
    {Request(T0930, Ping, 0, None),
     Request(T0930, Agua, 0, Some(<<"lunes">>))}

FailAddStep ==
    \E user_id \in Users, req \in FailRequests, outcome \in SaveOutcomes :
        /\ TotalRecords(schedules) < MaxRecords
        /\ Add(user_id, req, outcome)

FailDeleteStep ==
    \E user_id \in Users, schedule_id \in 1..MaxRecords,
       outcome \in SaveOutcomes :
        Delete(user_id, schedule_id, outcome)

FailResolveStep ==
    \E outcome \in SaveOutcomes :
        Resolve(outcome) /\ UNCHANGED <<now, loaded, found, worker, threads>>

NextFail == FailAddStep \/ FailDeleteStep \/ FailResolveStep \/ QuotaAdvance

SpecFail == Init /\ [][NextFail]_vars

----------------------------------------------------------------------------
(* SpecBoot: adds and deletes for two users, and restarts that find the    *)
(* file as it was left, removed or damaged                                 *)

\* the files a start may find (lines 40-42) where the old process left f:
\* f itself, no file, a file that is not JSON, or f with the time text of
\* one schedule no longer a time
FoundFiles(f) ==
    {f, FileMissing, FileCorrupt}
      \cup (IF f.state # "ok" THEN {}
            ELSE {[f EXCEPT !.data[x[1]].list[x[2]].time = T2400] :
                     x \in {y \in (1..Len(f.data)) \X (1..MaxSchedulesPerUser) :
                               y[2] <= Len(f.data[y[1]].list)}})

BootAddStep ==
    \E user_id \in Users, req \in FailRequests :
        /\ TotalRecords(schedules) < MaxRecords
        /\ Add(user_id, req, "ok")

BootDeleteStep == \E user_id \in Users : Delete(user_id, 1, "ok")

BootRestart == \E f \in FoundFiles(file) : RestartFrom(f)

NextBoot == BootAddStep \/ BootDeleteStep \/ BootRestart

SpecBoot == Init /\ [][NextBoot]_vars

----------------------------------------------------------------------------
(* SpecRecover: one user's adds of one-time schedules and ticks, whose     *)
(* writes may fail, and restarts that find the file as it was left,        *)
(* removed or damaged                                                      *)

RecoverAddStep ==
    \E outcome \in SaveOutcomes :
        /\ TotalRecords(schedules) < MaxRecords
        /\ Add("u1", Request(T0930, Ping, 0, None), outcome)

NextRecover ==
    RecoverAddStep \/ FailResolveStep \/ BootRestart \/ QuotaAdvance

SpecRecover == Init /\ [][NextRecover]_vars

----------------------------------------------------------------------------
(* Vocabulary of the properties *)

\* the error of section 7 a failure message stands for
ErrorKind(r) ==
    CASE r.success -> "none"
      [] r.message.text = "Formato de hora invalido" -> "InvalidTime"
      [] r.message.text = "Dia invalido" -> "InvalidWeekday"
      [] r.message.text = "Limite alcanzado" -> "QuotaExceeded"
      [] r.message.text = "No tienes schedules" -> "NotFound"
      [] r.message.text = "no encontrado" -> "NotFound"
      [] OTHER -> "other"

RecordsOf(u) == IF HasUser(schedules, u) THEN UserList(schedules, u) ELSE <<>>

RecordsOfNext(u) ==
    IF HasUser(schedules', u) THEN UserList(schedules', u) ELSE <<>>

\* the user has an active schedule with this id
HasActive(l, schedule_id) ==
    \E j \in 1..Len(l) : l[j].id = schedule_id /\ l[j].active

HasRecord(l, schedule_id) == \E j \in 1..Len(l) : l[j].id = schedule_id

\* this step is a call of the operation (every call writes result; the clock
\* does not move during a call)
AddCall(u) ==
    result'.op = "add" /\ result'.args.user_id = u /\ now' = now

ListCall(u) ==
    result'.op = "list" /\ result'.args.user_id = u /\ now' = now

DeleteCall(u, schedule_id) ==
    /\ result'.op = "delete"
    /\ result'.args.user_id = u
    /\ result'.args.schedule_id = schedule_id
    /\ now' = now

ResolveCall == result'.op = "get_due" /\ now' = now

\* a time text HH:MM: two digits 00..23, a colon, two digits 00..59
ValidHHMM(text) ==
    /\ Len(text) = 5
    /\ text[3] = ":"
    /\ \A i \in {1, 2, 4, 5} : IsDigit(text[i])
    /\ 10 * DigitVal(text[1]) + DigitVal(text[2]) < HoursPerDay
    /\ 10 * DigitVal(text[4]) + DigitVal(text[5]) < MinutesPerHour

\* a recurrence text: absent, the word "all", or day names between commas,
\* in any case and with blanks around them
ValidRecurrence(weekdays) ==
    \/ IsNone(weekdays)
    \/ TheVal(weekdays) = <<>>
    \/ Lower(Strip(TheVal(weekdays))) = <<"all">>
    \/ LET tokens == SplitComma(TheVal(weekdays), <<>>)
       IN  \A i \in 1..Len(tokens) :
               \E d \in Range(AllWeekdayNames) :
                   Lower(Strip(tokens[i])) = <<d>>

\* the number of items of a due set or a listing with this id
CountId(items, schedule_id) ==
    Cardinality({i \in 1..Len(items) : items[i].id = schedule_id})

\* the token is one of the seven day names or the literal "all"
TokenRecognised(token) ==
    \E d \in Range(AllWeekdayNames) \cup {"all"} : Lower(Strip(token)) = <<d>>

\* every token of the text is recognised (an absent or empty text has none)
TokensRecognised(weekdays) ==
    \/ IsNone(weekdays)
    \/ TheVal(weekdays) = <<>>
    \/ LET tokens == SplitComma(TheVal(weekdays), <<>>)
       IN  \A i \in 1..Len(tokens) : TokenRecognised(tokens[i])

\* the record add_schedule makes of the text "all"
FromAll(s) ==
    s.is_recurring /\ s.weekday_names = AllWeekdayNames

\* a record add_schedule makes of the seven names in another order
FromSevenNames(s) ==
    /\ s.is_recurring
    /\ Len(s.weekday_names) = 7
    /\ Range(s.weekday_names) = Range(AllWeekdayNames)
    /\ s.weekday_names # AllWeekdayNames

\* a time text dd:dd whose hour or minute is out of range
OutOfRangeHHMM(text) ==
    /\ Len(text) = 5
    /\ text[3] = ":"
    /\ \A i \in {1, 2, 4, 5} : IsDigit(text[i])
    /\ ~ValidHHMM(text)

RestartCall == result'.op = "restart" /\ now' = now

\* the resolver is to return the schedule at the clock's reading
IsArmedNow(s) ==
    /\ s.active
    /\ s.time = CurrentMinute(now)
    /\ s.is_recurring => Weekday(now) \in Range(TheVal(s.weekdays))

\* the file is JSON and every time text in it is a time
FileSound(f) ==
    /\ f.state = "ok"
    /\ \A i \in 1..Len(f.data) : \A j \in 1..Len(f.data[i].list) :
           ValidHHMM(f.data[i].list[j].time)

\* the last start of the process found a file and could not read it
LoadFailedSoft ==
    /\ found.state # "missing"
    /\ ~FileSound(found)
    /\ loaded = <<>>

\* there is a file and it cannot be read
StillUnreadable == file.state # "missing" /\ ~FileSound(file)

\* this step is a create_connection that failed
ConnectFailed == main.pc = "connect" /\ main'.pc \in {"retry", "exited"}

\* the number of schedules list_schedules gives for a user
ListedBy(m, u) == Len(list_schedules(m, u))

\* this step is a call of get_stats
StatsCall == result'.op = "stats" /\ now' = now

\* this step is a call whose write failed
FailedWrite == writeFailures' = writeFailures + 1

\* the outcomes of an executor call that failed
FailureOutcomes ==
    {"no_healthy_interface", "schedule_execution_error",
     "schedule_reminder_failed"}

\* this step is one executor call
ExecuteCall == Len(handed') = Len(handed) + 1

\* <<user, id>> of the entries of a sequence of handed or pending items
HandedKeys == [i \in 1..Len(handed) |-> <<handed[i].user_id, handed[i].id>>]

PendingOrder == [i \in 1..Len(due) |-> <<due[i].item.user_id, due[i].item.id>>]

\* the due set of the last tick, in the order it is dispatched: what was
\* handed over, then what is still to be
TickOrder == HandedKeys \o PendingOrder

TickOrderNext ==
    [i \in 1..Len(handed') |-> <<handed'[i].user_id, handed'[i].id>>]
    \o [i \in 1..Len(due') |-> <<due'[i].item.user_id, due'[i].item.id>>]

\* what the last tick returned, from the history of the ticks
ReturnedByLastTick ==
    {<<r[1], r[2]>> : r \in {x \in returned :
                                <<x[3], x[4]>> = Pair(tickAt)}}

\* the place of user u in the mapping
UserRank(u) == UserIndex(schedules, u)

\* this step is a tick of the loop
TickCall == pc = "resolve" /\ pc' \in {"dispatch", "sleep", "except"}

\* the threads inside the critical section of self.lock
FgInside == fg.pc \in {"locked", "applied"}

TickInside == pc \in {"scan", "persist"}

\* every add and delete the mapping shows is whole: it is the mapping the
\* file holds
WholeCallsOnly ==
    \/ schedules = <<>> /\ file = FileMissing
    \/ file = FileWith(schedules)

\* this step is the sleep of the loop after a tick
SleepCall == pc = "sleep" /\ pc' = "resolve"

\* the minute a clock reading falls in, counted from the start of the clock
MinuteNumber(t) == t \div TicksPerMinute

\* the tick's work ended in the minute the tick read, and the sleep ends on
\* the day it began
SameMinuteSleep ==
    /\ SleepCall
    /\ MinuteNumber(current_time') = MinuteNumber(tickAt)
    /\ DateStr(now') = DateStr(now)

\* the sleep asked for is the time to the next minute boundary, or one
\* second if that is less
SleepAsked ==
    LET remaining == NextMinute(current_time') - current_time'
    IN  /\ sleep_seconds' >= 1 * TicksPerSecond
        /\ sleep_seconds' <= SecondsPerMinute * TicksPerSecond
        /\ sleep_seconds' >= remaining
        /\ sleep_seconds' = remaining \/ sleep_seconds' = 1 * TicksPerSecond

----------------------------------------------------------------------------
(* C1: a one-time schedule is in a due set at most once in its life: the   *)
(* tick that returns it leaves it inactive with the fire date as its only  *)
(* executed date, and no later tick returns it.                            *)

C1_OneTimeFiresAtMostOnce ==
    \A u \in Users : \A j \in 1..Len(RecordsOf(u)) :
        LET s == RecordsOf(u)[j]
            f == fired[<<u, s.id>>]
        IN  ~s.is_recurring =>
                /\ Len(f) <= 1
                /\ Len(f) = 1 => ~s.active /\ s.executed_dates = f
                /\ Len(f) = 0 => s.executed_dates = <<>>

\* a tick on a later day reads the minute of a fired one-time schedule and
\* returns nothing
C1_Witness ==
    /\ result.op = "get_due"
    /\ result.list = <<>>
    /\ \E u \in Users : \E j \in 1..Len(RecordsOf(u)) :
           LET s == RecordsOf(u)[j]
           IN  /\ ~s.is_recurring
               /\ s.time = CurrentMinute(now)
               /\ Len(fired[<<u, s.id>>]) = 1
               /\ fired[<<u, s.id>>][1] < DateStr(now)

----------------------------------------------------------------------------
(* C2, as claimed: every occurrence of an armed schedule's minute while    *)
(* the loop runs gets exactly one executor call, neither none nor two.     *)

C2_ExactlyOncePerOccurrence ==
    /\ missed = {}
    /\ \A c \in calls : c[5] = 1

(* C2, amended: an occurrence gets exactly one executor call when a tick   *)
(* of the loop reads its minute while the schedule is armed, and no call   *)
(* when no tick does (it is missed, not caught up); none gets two calls.   *)

C2_OncePerOccurrenceRead ==
    /\ \A c \in calls : c[5] = 1 /\ SubSeq(c, 1, 4) \in seen
    /\ \A k \in seen : k \in Keys(calls) \/ k \in PendingKeys(due)
    /\ pc # "dispatch" => due = <<>>
    /\ \A k \in missed :
           /\ k \notin Keys(calls)
           /\ k \notin seen
           /\ <<k[3], k[4], 1>> \notin tickRead

\* the loop sleeps after a tick whose occurrence got its call, another
\* occurrence having been missed
C2_Witness ==
    /\ pc = "sleep"
    /\ missed # {}
    /\ \E c \in calls : SubSeq(c, 1, 4) \in seen /\ SubSeq(c, 1, 4) \notin missed

----------------------------------------------------------------------------
(* C3: no two ticks of the loop read the same (date, minute), and no       *)
(* occurrence of a schedule, recurring ones in particular, is returned as  *)
(* due twice.                                                              *)

C3_OneTickPerMinute ==
    /\ \A r \in tickRead : r[3] = 1
    /\ \A r \in returned : r[5] = 1

\* a recurring schedule was returned at 09:30 of a day and the loop has
\* ticked again at 09:31 of that day
C3_Witness ==
    \E r \in returned :
        /\ \E j \in 1..Len(RecordsOf(r[1])) :
               RecordsOf(r[1])[j].id = r[2] /\ RecordsOf(r[1])[j].is_recurring
        /\ <<r[3], r[4], 1>> \in tickRead
        /\ <<r[3], r[4] + 1, 1>> \in tickRead

----------------------------------------------------------------------------
(* C4: lifetime quota.  No user ever has more than 5 records; an add for a *)
(* user with 5 records fails and creates nothing, whatever became of the   *)
(* 5 (deleted, fired), and it fails with QuotaExceeded when its time and   *)
(* recurrence text are valid.                                              *)

C4_LifetimeQuota ==
    /\ [](\A u \in Users : RecordCount(schedules, u) <= 5)
    /\ [][\A u \in Users :
             AddCall(u) /\ RecordCount(schedules, u) >= 5 =>
                 /\ ~result'.success
                 /\ schedules' = schedules
                 /\ file' = file
                 /\ (ValidHHMM(result'.args.req.time_str)
                       /\ ValidRecurrence(result'.args.req.weekdays))
                      => ErrorKind(result') = "QuotaExceeded"]_vars

\* the sixth add is refused although none of the five is active any more:
\* some were deleted and some fired
C4_Witness ==
    /\ result.op = "add"
    /\ ErrorKind(result) = "QuotaExceeded"
    /\ LET l == RecordsOf(result.args.user_id)
       IN  /\ Len(l) = 5
           /\ \A j \in 1..5 : ~l[j].active
           /\ \E j \in 1..5 : l[j].executed_dates = <<>>
           /\ \E j \in 1..5 : l[j].executed_dates # <<>>

----------------------------------------------------------------------------
(* C5: the k-th record created for a user has id k, whatever was deleted   *)
(* or fired in between; so no two records of a user share an id.           *)

C5_IdsAreCreationRanks ==
    \A u \in Users : \A j \in 1..Len(RecordsOf(u)) : RecordsOf(u)[j].id = j

\* an add after a delete and a firing: the third record gets id 3
C5_Witness ==
    /\ result.op = "add"
    /\ result.success
    /\ TheVal(result.schedule).id = 3
    /\ LET l == RecordsOf(result.args.user_id)
       IN  /\ Len(l) = 3
           /\ \E j \in 1..2 : ~l[j].active /\ l[j].executed_dates = <<>>
           /\ \E j \in 1..2 : ~l[j].active /\ l[j].executed_dates # <<>>

----------------------------------------------------------------------------
(* C6: an add with a valid HH:MM time and a valid recurrence text for a    *)
(* user below quota succeeds, and a list for that user right after it      *)
(* holds a schedule with the returned id, the same time, content and       *)
(* channel, and active = true.                                             *)

C6_AddThenList ==
    result.op = "add" =>
        LET u == result.args.user_id
            req == result.args.req
            listed == list_schedules(schedules, u)
        IN  /\ (/\ ValidHHMM(req.time_str)
                /\ ValidRecurrence(req.weekdays)
                /\ ErrorKind(result) # "QuotaExceeded") => result.success
            /\ ErrorKind(result) = "QuotaExceeded" => Len(RecordsOf(u)) >= 5
            /\ result.success =>
                   \E i \in 1..Len(listed) :
                       /\ listed[i].id = TheVal(result.schedule).id
                       /\ listed[i].content = req.content
                       /\ listed[i].channel = req.channel
                       /\ listed[i].active
                       /\ ValidHHMM(req.time_str) =>
                              /\ listed[i].time.hour =
                                     10 * DigitVal(req.time_str[1])
                                       + DigitVal(req.time_str[2])
                              /\ listed[i].time.minute =
                                     10 * DigitVal(req.time_str[4])
                                       + DigitVal(req.time_str[5])

\* a recurring add on channel 1 at 09:30 for a user who already has a
\* schedule has just succeeded
C6_Witness ==
    /\ result.op = "add"
    /\ result.success
    /\ ValidHHMM(result.args.req.time_str)
    /\ ~IsNone(result.args.req.weekdays)
    /\ result.args.req.channel = 1
    /\ TheVal(result.schedule).id = 2

----------------------------------------------------------------------------
(* C7: a delete of an id that is active for the user succeeds and leaves   *)
(* it inactive; an inactive schedule never becomes active again; every     *)
(* list returns active schedules only; and a delete of an id that is no    *)
(* longer active fails with NotFound.                                      *)

C7_DeleteThenGone ==
    [][\A u \in Users :
          /\ \A schedule_id \in ScheduleIds :
                /\ DeleteCall(u, schedule_id)
                     /\ HasActive(RecordsOf(u), schedule_id) =>
                       /\ result'.success
                       /\ ~HasActive(RecordsOfNext(u), schedule_id)
                       /\ CountId(list_schedules(schedules', u),
                                  schedule_id) = 0
                /\ HasRecord(RecordsOf(u), schedule_id)
                     /\ ~HasActive(RecordsOf(u), schedule_id) =>
                       /\ ~HasActive(RecordsOfNext(u), schedule_id)
                       /\ DeleteCall(u, schedule_id) =>
                              ErrorKind(result') = "NotFound"
          /\ ListCall(u) =>
                \A i \in 1..Len(result'.list) :
                    HasActive(RecordsOf(u), result'.list[i].id)]_vars

\* the second delete of a deleted schedule has just failed
C7_Witness ==
    /\ result.op = "delete"
    /\ ErrorKind(result) = "NotFound"
    /\ \E j \in 1..Len(RecordsOf(result.args.user_id)) :
           LET s == RecordsOf(result.args.user_id)[j]
           IN  /\ s.id = result.args.schedule_id
               /\ ~s.active
               /\ s.executed_dates = <<>>

----------------------------------------------------------------------------
(* C8: a delete fails, and then with NotFound, exactly when the user has   *)
(* no active schedule with that id; otherwise it succeeds.                 *)

C8_NotFoundIffNoActive ==
    [][\A u \in Users : \A schedule_id \in ScheduleIds :
          DeleteCall(u, schedule_id) =>
              /\ result'.success <=> HasActive(RecordsOf(u), schedule_id)
              /\ ErrorKind(result') = "NotFound"
                   <=> ~HasActive(RecordsOf(u), schedule_id)
              /\ ~result'.success => schedules' = schedules]_vars

\* a delete of an id that is active for another user only has failed, for a
\* user who has a schedule
C8_Witness ==
    /\ result.op = "delete"
    /\ ErrorKind(result) = "NotFound"
    /\ RecordsOf(result.args.user_id) # <<>>
    /\ ~HasRecord(RecordsOf(result.args.user_id), result.args.schedule_id)
    /\ \E v \in Users \ {result.args.user_id} :
           HasActive(RecordsOf(v), result.args.schedule_id)

----------------------------------------------------------------------------
(* C9: list returns exactly the user's active schedules, each once, in     *)
(* ascending id; the empty sequence for a user without schedules; and it   *)
(* changes neither the mapping nor the file.                               *)

C9_ListActiveInOrder ==
    [][\A u \in Users :
          ListCall(u) =>
              LET l == result'.list
                  recs == RecordsOf(u)
              IN  /\ result'.success
                  /\ \A i \in 1..Len(l) :
                         l[i].active /\ \E j \in 1..Len(recs) : recs[j] = l[i]
                  /\ \A j \in 1..Len(recs) :
                         recs[j].active => CountId(l, recs[j].id) = 1
                  /\ \A i, k \in 1..Len(l) : i < k => l[i].id < l[k].id
                  /\ recs = <<>> => l = <<>>
                  /\ schedules' = schedules
                  /\ file' = file]_vars

\* a list has returned the first and the third of three schedules, the second
\* being inactive
C9_Witness ==
    /\ result.op = "list"
    /\ Len(result.list) = 2
    /\ result.list[1].id = 1
    /\ result.list[2].id = 3
    /\ Len(RecordsOf(result.args.user_id)) = 3

----------------------------------------------------------------------------
(* C10: a resolver call that reads the minute of an active one-time        *)
(* schedule returns it exactly once and leaves it inactive with the day of *)
(* the call as its only executed date; a resolver call never returns a     *)
(* one-time schedule that is inactive, on the same day or a later one.     *)

C10_OneTimeTick ==
    [][ResolveCall =>
          \A u \in Users : \A j \in 1..Len(RecordsOf(u)) :
              LET s == RecordsOf(u)[j]
                  items == SelectSeq(result'.list,
                                     LAMBDA it : it.user_id = u)
              IN  ~s.is_recurring =>
                      /\ s.active /\ s.time = CurrentMinute(now) =>
                             /\ CountId(items, s.id) = 1
                             /\ ~RecordsOfNext(u)[j].active
                             /\ RecordsOfNext(u)[j].executed_dates
                                    = <<DateStr(now)>>
                      /\ ~s.active =>
                             /\ CountId(items, s.id) = 0
                             /\ RecordsOfNext(u)[j] = s]_vars

\* a second resolver call in the minute and on the day a one-time schedule
\* fired returns nothing
C10_Witness ==
    /\ result.op = "get_due"
    /\ result.list = <<>>
    /\ \E u \in Users : \E j \in 1..Len(RecordsOf(u)) :
           LET s == RecordsOf(u)[j]
           IN  /\ ~s.is_recurring
               /\ s.time = CurrentMinute(now)
               /\ fired[<<u, s.id>>] = <<DateStr(now)>>

----------------------------------------------------------------------------
(* C11: a resolver call that reads the minute of an active recurring       *)
(* schedule returns it, once, exactly when the weekday of the call is in   *)
(* its weekday set, and leaves the schedule as it was, active; so it is    *)
(* returned again at that minute of every later matching weekday.          *)

C11_RecurringIffWeekday ==
    [][ResolveCall =>
          \A u \in Users : \A j \in 1..Len(RecordsOf(u)) :
              LET s == RecordsOf(u)[j]
                  items == SelectSeq(result'.list,
                                     LAMBDA it : it.user_id = u)
              IN  s.is_recurring =>
                      /\ RecordsOfNext(u)[j] = s
                      /\ CountId(items, s.id) =
                             IF /\ s.active
                                /\ s.time = CurrentMinute(now)
                                /\ Weekday(now) \in Range(TheVal(s.weekdays))
                             THEN 1 ELSE 0]_vars

\* a schedule set for Mondays and Wednesdays, returned on the Monday and the
\* Wednesday of the first week, is returned on the Monday of the next week
C11_Witness ==
    /\ result.op = "get_due"
    /\ DateStr(now) = 7
    /\ \E i \in 1..Len(result.list) :
           LET it == result.list[i]
           IN  /\ it.is_recurring
               /\ Range(TheVal(it.weekdays)) = {0, 2}
               /\ it.active
               /\ fired[<<it.user_id, it.id>>] = <<0, 2>>

----------------------------------------------------------------------------
(* C12: every schedule of a due set was active when the resolver call      *)
(* began and is set for the minute the call read; a schedule that is       *)
(* inactive (deleted, or fired once) stays inactive and is in no due set.  *)

C12_DueWereActiveAtMinute ==
    [][\A u \in Users :
          /\ ResolveCall =>
                \A i \in 1..Len(result'.list) :
                    LET it == result'.list[i]
                    IN  it.user_id = u =>
                            /\ it.time = CurrentMinute(now)
                            /\ \E j \in 1..Len(RecordsOf(u)) :
                                   /\ RecordsOf(u)[j].id = it.id
                                   /\ RecordsOf(u)[j].active
                                   /\ RecordsOf(u)[j].time = it.time
          /\ \A j \in 1..Len(RecordsOf(u)) :
                ~RecordsOf(u)[j].active =>
                    /\ ~RecordsOfNext(u)[j].active
                    /\ ResolveCall =>
                           \A i \in 1..Len(result'.list) :
                               ~(/\ result'.list[i].user_id = u
                                 /\ result'.list[i].id = RecordsOf(u)[j].id)]_vars

\* a resolver call at 09:30 returns a schedule and leaves out a deleted
\* schedule recurring every day at 09:30
C12_Witness ==
    /\ result.op = "get_due"
    /\ result.list # <<>>
    /\ \E u \in Users : \E j \in 1..Len(RecordsOf(u)) :
           LET s == RecordsOf(u)[j]
           IN  /\ s.is_recurring
               /\ ~s.active
               /\ s.time = CurrentMinute(now)
               /\ Weekday(now) \in Range(TheVal(s.weekdays))
               /\ \A i \in 1..Len(result.list) :
                      ~(result.list[i].user_id = u /\ result.list[i].id = s.id)

----------------------------------------------------------------------------
(* C13: an add is rejected with InvalidWeekday when some comma-separated   *)
(* token of its recurrence text is neither a day name nor "all" (case and  *)
(* surrounding blanks aside), and is not rejected with InvalidWeekday when *)
(* every token is a day name or "all".                                     *)

C13_InvalidWeekdayIffBadToken ==
    result.op = "add" =>
        /\ TokensRecognised(result.args.req.weekdays)
             => ErrorKind(result) # "InvalidWeekday"
        /\ (/\ ~TokensRecognised(result.args.req.weekdays)
            /\ ErrorKind(result) # "InvalidTime")
             => ErrorKind(result) = "InvalidWeekday"

----------------------------------------------------------------------------
(* C14: a schedule added with "all" and one added with the seven day       *)
(* names in any order have the same weekday set {0..6}, get the same       *)
(* recurrence in the confirmation and in the list output, and are returned *)
(* by the same resolver calls, on every weekday.                           *)

C14_AllIsSevenNames ==
    /\ [](/\ \A i, j \in 1..Len(RecordsOf("u1")) :
                LET a == RecordsOf("u1")[i]
                    b == RecordsOf("u1")[j]
                IN  FromAll(a) /\ FromSevenNames(b) =>
                        /\ Range(TheVal(a.weekdays)) = 0..6
                        /\ Range(TheVal(b.weekdays)) = 0..6
                        /\ RecurrenceDisplay(a) = RecurrenceDisplay(b)
          /\ (result.op = "add" /\ result.success) =>
                LET s == TheVal(result.schedule)
                IN  FromAll(s) \/ FromSevenNames(s) =>
                        result.message.arg = <<"todos los dias">>
          /\ result.op = "list" =>
                \A i, j \in 1..Len(result.list) :
                    FromAll(result.list[i]) /\ FromSevenNames(result.list[j])
                        => RecurrenceDisplay(result.list[i])
                             = RecurrenceDisplay(result.list[j]))
    /\ [][ResolveCall =>
             \A i, j \in 1..Len(RecordsOf("u1")) :
                 LET a == RecordsOf("u1")[i]
                     b == RecordsOf("u1")[j]
                 IN  (/\ FromAll(a) /\ FromSevenNames(b)
                      /\ a.active /\ b.active /\ a.time = b.time) =>
                         /\ CountId(result'.list, a.id)
                              = CountId(result'.list, b.id)
                         /\ a.time = CurrentMinute(now) =>
                                CountId(result'.list, a.id) = 1]_vars

\* on a Sunday a resolver call returns a schedule added with "all" and one
\* added with the seven names
C14_Witness ==
    /\ result.op = "get_due"
    /\ Weekday(now) = 6
    /\ \E i, j \in 1..Len(result.list) :
           FromAll(result.list[i]) /\ FromSevenNames(result.list[j])

----------------------------------------------------------------------------
(* C15: every add and delete returns a result; a request that is invalid   *)
(* (time out of range, unrecognised day token, quota reached, no active    *)
(* schedule with the id) returns success = false with one of the four      *)
(* error kinds, and a failing add or delete leaves the mapping and the     *)
(* file as they were.                                                      *)

C15_FailuresChangeNothing ==
    [][\A u \in Users :
          /\ AddCall(u) =>
                /\ OutOfRangeHHMM(result'.args.req.time_str)
                     => ErrorKind(result') = "InvalidTime"
                /\ ~TokensRecognised(result'.args.req.weekdays)
                     => ErrorKind(result') \in {"InvalidTime", "InvalidWeekday"}
                /\ RecordCount(schedules, u) >= 5 => ~result'.success
                /\ ~result'.success =>
                       ErrorKind(result') \in
                           {"InvalidTime", "InvalidWeekday", "QuotaExceeded"}
          /\ \A schedule_id \in ScheduleIds :
                DeleteCall(u, schedule_id) =>
                    /\ ~HasActive(RecordsOf(u), schedule_id)
                         => ErrorKind(result') = "NotFound"
                    /\ ~result'.success => ErrorKind(result') = "NotFound"
          /\ (AddCall(u) \/ \E schedule_id \in ScheduleIds :
                               DeleteCall(u, schedule_id)) /\ ~result'.success =>
                /\ schedules' = schedules
                /\ file' = file]_vars

\* an add with an unrecognised day, for a user the mapping does not know, has
\* failed and the mapping still does not know the user
C15_Witness ==
    /\ result.op = "add"
    /\ ErrorKind(result) = "InvalidWeekday"
    /\ ~HasUser(schedules, result.args.user_id)
    /\ schedules # <<>>

----------------------------------------------------------------------------
(* C16: with the writes succeeding, between calls the file holds the whole *)
(* mapping (or is still missing, the mapping being empty): every           *)
(* successful add, every successful delete and every resolver call that    *)
(* consumed a one-time schedule rewrites it with the mapping.              *)

C16_FileEqualsMapping ==
    /\ [](\/ file = FileWith(schedules)
          \/ file = FileMissing /\ schedules = <<>>)
    /\ [][/\ (result'.op \in {"add", "delete"} /\ result'.success
                /\ now' = now) => file' = FileWith(schedules')
          /\ (ResolveCall /\ schedules' # schedules)
                => file' = FileWith(schedules')]_vars

\* a resolver call has consumed a one-time schedule and the file shows it
\* inactive with its fire date
C16_Witness ==
    /\ result.op = "get_due"
    /\ result.list # <<>>
    /\ file.state = "ok"
    /\ \E i \in 1..Len(file.data) : \E j \in 1..Len(file.data[i].list) :
           LET e == file.data[i].list[j]
           IN  /\ ~e.active
               /\ e.executed_dates = <<DateStr(now)>>
               /\ e.id = result.list[1].id
               /\ file.data[i].user_id = result.list[1].user_id

----------------------------------------------------------------------------
(* C17: saving any mapping the registry can hold and loading the file into *)
(* a new registry gives the same mapping: every field of every schedule,   *)
(* the order of the users and of their schedules.                          *)

C17_SaveLoadRoundTrip ==
    load_schedules(Saved(schedules, file, "ok")) = schedules

\* a mapping of two users: a recurring schedule that was deleted and a
\* one-time schedule that fired
C17_Witness ==
    /\ Len(schedules) = 2
    /\ \E i, k \in 1..2 :
           /\ i # k
           /\ \E j \in 1..Len(schedules[i].list) :
                  /\ schedules[i].list[j].is_recurring
                  /\ ~schedules[i].list[j].active
           /\ \E j \in 1..Len(schedules[k].list) :
                  /\ ~schedules[k].list[j].is_recurring
                  /\ schedules[k].list[j].executed_dates # <<>>

----------------------------------------------------------------------------
(* C18: with the writes succeeding, a restart gives the new process the    *)
(* mapping the old one had.  So over runs with restarts: an inactive       *)
(* schedule stays inactive, a one-time schedule is in at most one due set, *)
(* an active schedule is returned by a resolver call at its minute (on its *)
(* weekdays), no record is lost, and an add numbers the new schedule after *)
(* all the records the user ever had, at most 5.                           *)

C18_StateSurvivesRestart ==
    /\ [](\A u \in Users : \A j \in 1..Len(RecordsOf(u)) :
              /\ RecordsOf(u)[j].id = j
              /\ j <= 5
              /\ ~RecordsOf(u)[j].is_recurring
                   => Len(fired[<<u, j>>]) <= 1)
    /\ [][/\ RestartCall => schedules' = schedules
          /\ \A u \in Users :
                /\ Len(RecordsOfNext(u)) >= Len(RecordsOf(u))
                /\ \A j \in 1..Len(RecordsOf(u)) :
                      /\ ~RecordsOf(u)[j].active
                           => ~RecordsOfNext(u)[j].active
                      /\ ResolveCall /\ IsArmedNow(RecordsOf(u)[j]) =>
                             \E i \in 1..Len(result'.list) :
                                 /\ result'.list[i].user_id = u
                                 /\ result'.list[i].id = j
                /\ AddCall(u) /\ result'.success =>
                       TheVal(result'.schedule).id = Len(RecordsOf(u)) + 1]_vars

\* the process was restarted after a one-time schedule fired on day 0; on
\* day 1 a resolver call at the schedule's minute does not return it
C18_Witness ==
    /\ result.op = "get_due"
    /\ DateStr(now) = 1
    /\ \E i \in 1..Len(loaded) : \E j \in 1..Len(loaded[i].list) :
           LET s == loaded[i].list[j]
           IN  /\ ~s.is_recurring
               /\ s.executed_dates = <<0>>
               /\ s.time = CurrentMinute(now)
               /\ \A k \in 1..Len(result.list) :
                      ~(/\ result.list[k].user_id = loaded[i].user_id
                        /\ result.list[k].id = s.id)

----------------------------------------------------------------------------
(* C19: a start of the process always ends with a mapping: the whole       *)
(* mapping of the file when the file is JSON whose time texts are times,   *)
(* and the empty mapping when the file is missing, is not JSON, or holds a *)
(* time text that is not a time, even in the last schedule of the last     *)
(* user; never a part of the file's mapping.                               *)

C19_LoadFailsSoft ==
    [][RestartCall =>
          /\ result'.success
          /\ IF FileSound(file')
             THEN /\ Len(schedules') = Len(file'.data)
                  /\ \A i \in 1..Len(file'.data) :
                         /\ schedules'[i].user_id = file'.data[i].user_id
                         /\ Len(schedules'[i].list) = Len(file'.data[i].list)
             ELSE schedules' = <<>>]_vars

\* a start has read a file whose first user is sound and whose second user
\* has a time text that is not a time: the mapping is empty
C19_Witness ==
    /\ result.op = "restart"
    /\ schedules = <<>>
    /\ file.state = "ok"
    /\ Len(file.data) = 2
    /\ \A j \in 1..Len(file.data[1].list) : ValidHHMM(file.data[1].list[j].time)
    /\ \E j \in 1..Len(file.data[2].list) : ~ValidHHMM(file.data[2].list[j].time)

----------------------------------------------------------------------------
(* C20: when the write of a save fails, the call returns as if it had      *)
(* succeeded and the mapping keeps the change: the added schedule is       *)
(* listed, the deleted schedule is inactive, the one-time schedule of a    *)
(* tick is consumed and in the tick's due set; the file is left as it was  *)
(* or damaged.                                                             *)

C20_FailedSaveKeepsMutation ==
    [][FailedWrite =>
          /\ result'.success
          /\ file' \in {file, FileCorrupt}
          /\ schedules' # schedules
          /\ \A u \in Users :
                /\ AddCall(u) =>
                      /\ Len(RecordsOfNext(u)) = Len(RecordsOf(u)) + 1
                      /\ CountId(list_schedules(schedules', u),
                                 TheVal(result'.schedule).id) = 1
                /\ \A schedule_id \in ScheduleIds :
                      DeleteCall(u, schedule_id) =>
                          /\ HasActive(RecordsOf(u), schedule_id)
                          /\ ~HasActive(RecordsOfNext(u), schedule_id)
          /\ ResolveCall =>
                /\ result'.list # <<>>
                /\ \A i \in 1..Len(result'.list) :
                       LET it == result'.list[i]
                           s == RecordsOfNext(it.user_id)[it.id]
                       IN  ~it.is_recurring =>
                               /\ ~s.active
                               /\ s.executed_dates = <<DateStr(now)>>]_vars

\* a resolver call has returned a one-time schedule and consumed it in
\* memory, while the file still shows the schedule active
C20_Witness ==
    /\ result.op = "get_due"
    /\ result.list # <<>>
    /\ writeFailures = 1
    /\ file.state = "ok"
    /\ LET it == result.list[1]
       IN  /\ ~RecordsOf(it.user_id)[it.id].active
           /\ \E i \in 1..Len(file.data) :
                  /\ file.data[i].user_id = it.user_id
                  /\ Len(file.data[i].list) >= it.id
                  /\ file.data[i].list[it.id].active
                  /\ ValidHHMM(file.data[i].list[it.id].time)

----------------------------------------------------------------------------
(* C21: an executor call that fails (an exception inside it, no healthy    *)
(* interface, a reminder that could not be sent) is caught: it hands the   *)
(* item over like any other call, the rest of the tick's due items stays   *)
(* to be passed to the executor, and after the last item the loop goes to  *)
(* its sleep and its next tick.  At every moment each item the last tick   *)
(* returned has been passed to the executor or is still to be.             *)
C21_ExecutorFailureIsolated ==
    /\ [](/\ pc \in {"resolve", "dispatch", "sleep"}
          /\ pc = "dispatch" <=> due # <<>>
          /\ ReturnedByLastTick = Range(TickOrder))
    /\ [][(ExecuteCall /\ handed'[Len(handed')].outcome \in FailureOutcomes)
          => /\ due' = Tail(due)
             /\ pc' = IF Tail(due) = <<>> THEN "sleep" ELSE "dispatch"
             /\ schedules' = schedules
             /\ file' = file]_vars

\* a tick whose first executor call failed and whose second item was passed
\* to the executor all the same, the loop now before its sleep
C21_Witness ==
    /\ pc = "sleep"
    /\ Len(handed) >= 2
    /\ handed[1].outcome = "schedule_execution_error"

----------------------------------------------------------------------------
(* C24: within one tick the executor is called once for each item of the   *)
(* due set and in the due set's order: every executor call takes the first *)
(* item still pending and leaves the order of the rest alone.  That order  *)
(* is the one get_due_schedules returned, without a repeated schedule, the *)
(* users in the order of the mapping, and the schedules of one user in the *)
(* order of creation, which is the ascending order of their ids.           *)
C24_DispatchInDueOrder ==
    /\ [](\A i, j \in 1..Len(TickOrder) :
              i < j =>
                  IF TickOrder[i][1] = TickOrder[j][1]
                  THEN TickOrder[i][2] < TickOrder[j][2]
                  ELSE UserRank(TickOrder[i][1]) < UserRank(TickOrder[j][1]))
    /\ [][ExecuteCall
          => /\ TickOrderNext = TickOrder
             /\ Len(due') = Len(due) - 1
             /\ calls' = Bump(calls, PendingKeys(<<Head(due)>>))]_vars
    /\ [][TickCall
          => /\ handed' = <<>>
             /\ Len(due') = Len(result'.list)
             /\ \A i \in 1..Len(due') : due'[i].item = result'.list[i]]_vars

\* a tick has passed three schedules of two users to the executor
C24_Witness ==
    /\ pc = "sleep"
    /\ Len(handed) = 3
    /\ Cardinality({handed[i].user_id : i \in 1..3}) = 2
    /\ Len(schedules) = 2

----------------------------------------------------------------------------
(* C22: the loop never ends on an error.  Its thread is always at one of   *)
(* the positions of the loop; from the except clause it goes back to the   *)
(* head of the loop, at least the fallback delay of 60 seconds later; and  *)
(* in every execution the loop ticks again and again, for ever.            *)
C22_LoopNeverTerminates ==
    /\ [](pc \in {"resolve", "dispatch", "sleep", "except"})
    /\ [][(pc = "except" /\ (pc' # pc \/ now' # now))
          => /\ pc' = "resolve"
             /\ (now' - now) % (LiveDays * TicksPerDay)
                    >= FallbackSleepSeconds * TicksPerSecond]_vars
    /\ []<><<TickCall>>_vars

\* a tick raised, the fallback sleep is over and the loop is at its head
\* for another tick
C22_Witness ==
    /\ pc = "resolve"
    /\ result.op = "get_due"
    /\ ~result.success
    /\ now # tickAt

----------------------------------------------------------------------------
(* C23: add, delete and the resolver's scan, flag and save are mutually    *)
(* exclusive under the one lock: at no moment are the foreground call and  *)
(* the tick both inside, and the lock names the one that is.  The mapping  *)
(* a tick scans holds every add and delete whole, record and flag in       *)
(* memory and in the file, or not at all; and no foreground call finds the *)
(* mapping between the scan of a tick and its save.                        *)
C23_OneLockSerializes ==
    /\ ~(FgInside /\ TickInside)
    /\ lock = "fg" <=> FgInside
    /\ lock = "worker" <=> TickInside
    /\ pc = "scan" => WholeCallsOnly
    /\ fg.pc = "locked" => WholeCallsOnly

\* the tick is at the lock while an add has appended its record and not
\* yet saved it
C23_Witness ==
    /\ pc = "resolve"
    /\ fg.pc = "applied"
    /\ fg.op = "add"
    /\ TheVal(fg.r).save
    /\ ~WholeCallsOnly
    /\ \E i \in 1..Len(schedules) : \E j \in 1..Len(schedules[i].list) :
           IsDue(schedules[i].list[j], now)

----------------------------------------------------------------------------
(* C25: no catch-up.  An occurrence whose minute went by with the schedule *)
(* armed and no tick reading it is never passed to the executor; every     *)
(* executor call, and every item still to be handed over, comes from a     *)
(* tick that read the very minute the schedule is set for.                 *)
C25_NoCatchUp ==
    /\ missed \cap Keys(calls) = {}
    /\ \A c \in Keys(calls) \cup PendingKeys(due) :
           /\ <<c[3], c[4]>> \in Keys(tickRead)
           /\ LET s == RecordsOf(c[1])[c[2]]
              IN  s.time.hour * MinutesPerHour + s.time.minute = c[4]

\* the minute of an armed schedule went by unread, a later tick has come
\* and found nothing to hand over, and the schedule is still active
C25_Witness ==
    \E k \in missed :
        /\ k \notin seen
        /\ tickAt >= PairEnd(<<k[3], k[4]>>)
        /\ DateStr(tickAt) = k[3]
        /\ pc = "sleep"
        /\ handed = <<>>
        /\ RecordsOf(k[1])[k[2]].active

----------------------------------------------------------------------------
(* C26, as claimed: after a tick the loop sleeps the time to the next      *)
(* minute boundary or one second, whichever is more, between 1 and 60      *)
(* seconds; and when the tick's work ended in the minute the tick read,    *)
(* the next tick reads the minute that follows, not the same one and not a *)
(* later one.                                                              *)
C26_NextTickNextMinute ==
    [][(SleepCall => SleepAsked)
       /\ (SameMinuteSleep
              => MinuteNumber(now') = MinuteNumber(tickAt) + 1)]_vars

(* C26, amended: the sleep asked for is as claimed, and the next tick      *)
(* never reads the same minute again; it reads the minute that follows     *)
(* when the sleep ends no more than 59 seconds after the time asked for.   *)
C26_NextTickNextMinuteOnTime ==
    [][(SleepCall => SleepAsked)
       /\ (SameMinuteSleep
              => /\ MinuteNumber(now') > MinuteNumber(tickAt)
                 /\ now' - (current_time' + sleep_seconds')
                        <= (SecondsPerMinute - 1) * TicksPerSecond
                    => MinuteNumber(now') = MinuteNumber(tickAt) + 1)]_vars

\* the loop has slept the floor of one second from half a second before
\* the boundary, and stands in the minute after the one its tick read
C26_Witness ==
    /\ pc = "resolve"
    /\ sleep_seconds = 1 * TicksPerSecond
    /\ NextMinute(current_time) - current_time < 1 * TicksPerSecond
    /\ MinuteNumber(current_time) = MinuteNumber(tickAt)
    /\ MinuteNumber(now) = MinuteNumber(tickAt) + 1

----------------------------------------------------------------------------
(* C27: every schedule add has created is of exactly one kind: one-time,   *)
(* with no weekdays and is_recurring false, or recurring, is_recurring     *)
(* true, with a collection of weekdays that is not empty and holds indices *)
(* from 0 to 6 only.  No recurrence text, be it empty, blank or made of    *)
(* commas, gives a recurring schedule without weekdays.                    *)
C27_OneTimeOrWeekdays ==
    \A u \in Users : \A i \in 1..Len(RecordsOf(u)) :
        LET s == RecordsOf(u)[i]
        IN  IF s.is_recurring
            THEN /\ ~IsNone(s.weekdays)
                 /\ TheVal(s.weekdays) # <<>>
                 /\ Range(TheVal(s.weekdays)) \subseteq 0..(DaysPerWeek - 1)
            ELSE IsNone(s.weekdays)

\* an add with an empty recurrence text has made a one-time schedule, next
\* to a recurring one
C27_Witness ==
    /\ result.op = "add"
    /\ result.args.req.weekdays = Some(<<>>)
    /\ result.success
    /\ Len(RecordsOf("u1")) = 2
    /\ RecordsOf("u1")[1].is_recurring
    /\ ~RecordsOf("u1")[2].is_recurring
    /\ IsNone(RecordsOf("u1")[2].weekdays)

----------------------------------------------------------------------------
(* C28: a resolver call leaves every recurring schedule as it was, active  *)
(* flag and executed_dates included; and a call that takes no one-time     *)
(* schedule leaves the whole mapping as it was and writes nothing: the     *)
(* file is untouched and no write has been tried.                          *)
C28_TickLeavesRecurringAlone ==
    [][ResolveCall =>
          /\ \A u \in Users :
                /\ Len(RecordsOfNext(u)) = Len(RecordsOf(u))
                /\ \A i \in 1..Len(RecordsOf(u)) :
                       RecordsOf(u)[i].is_recurring
                           => RecordsOfNext(u)[i] = RecordsOf(u)[i]
          /\ (\A i \in 1..Len(result'.list) : result'.list[i].is_recurring)
                => /\ schedules' = schedules
                   /\ file' = file
                   /\ ~FailedWrite]_vars

\* a resolver call has returned a recurring schedule and nothing else; the
\* schedule is active and has no executed date
C28_Witness ==
    /\ result.op = "get_due"
    /\ Len(result.list) = 1
    /\ result.list[1].is_recurring
    /\ LET s == RecordsOf(result.list[1].user_id)[result.list[1].id]
       IN  /\ s.active
           /\ s.is_recurring
           /\ s.executed_dates = <<>>
    /\ \E u \in Users : \E i \in 1..Len(RecordsOf(u)) :
           ~RecordsOf(u)[i].is_recurring /\ ~RecordsOf(u)[i].active

----------------------------------------------------------------------------
(* C29: at every moment the executed_dates of a one-time schedule hold at  *)
(* most one date, and hold one only if the schedule is inactive; the       *)
(* executed_dates of a recurring schedule are empty.                       *)
C29_ExecutedDatesAtMostOne ==
    \A u \in Users : \A i \in 1..Len(RecordsOf(u)) :
        LET s == RecordsOf(u)[i]
        IN  IF s.is_recurring
            THEN s.executed_dates = <<>>
            ELSE /\ Len(s.executed_dates) <= 1
                 /\ s.executed_dates # <<>> => ~s.active

\* a one-time schedule has fired and holds its one date, and a recurring
\* schedule has fired too and holds none
C29_Witness ==
    \E u \in Users, v \in Users :
        \E i \in 1..Len(RecordsOf(u)), j \in 1..Len(RecordsOf(v)) :
            /\ ~RecordsOf(u)[i].is_recurring
            /\ Len(RecordsOf(u)[i].executed_dates) = 1
            /\ ~RecordsOf(u)[i].active
            /\ RecordsOf(v)[j].is_recurring
            /\ fired[<<v, RecordsOf(v)[j].id>>] # <<>>
            /\ RecordsOf(v)[j].executed_dates = <<>>

----------------------------------------------------------------------------
(* C30: records are never removed and never reactivated.  Over every add,  *)
(* delete and tick a user stays in the mapping and the user's list grows   *)
(* by at most one record, at its end; every record stays at its place with *)
(* its id and what it was created with; and an inactive record stays       *)
(* inactive.                                                               *)
C30_RecordsOnlyAppended ==
    [][\A u \in Users :
          /\ HasUser(schedules, u) => HasUser(schedules', u)
          /\ Len(RecordsOfNext(u)) \in {Len(RecordsOf(u)), Len(RecordsOf(u)) + 1}
          /\ Len(RecordsOfNext(u)) # Len(RecordsOf(u)) => AddCall(u)
          /\ \A i \in 1..Len(RecordsOf(u)) :
                 LET s == RecordsOf(u)[i]
                     n == RecordsOfNext(u)[i]
                 IN  /\ n.id = s.id
                     /\ n.time = s.time
                     /\ n.content = s.content
                     /\ n.channel = s.channel
                     /\ n.weekdays = s.weekdays
                     /\ n.is_recurring = s.is_recurring
                     /\ n.active => s.active]_vars

\* an add has put its record, with id 2, behind a record a tick has taken
C30_Witness ==
    /\ result.op = "add"
    /\ result.success
    /\ \E u \in Users :
           /\ u = result.args.user_id
           /\ Len(RecordsOf(u)) = 2
           /\ ~RecordsOf(u)[1].active
           /\ RecordsOf(u)[2].active
           /\ RecordsOf(u)[2].id = 2
    /\ \E v \in Users : \E i \in 1..Len(RecordsOf(v)) :
           ~RecordsOf(v)[i].active /\ RecordsOf(v)[i].executed_dates # <<>>

----------------------------------------------------------------------------
(* C31: the confirmation of a successful recurring add says "todos los     *)
(* dias" exactly when the weekday set of the new schedule holds all seven  *)
(* days, and lists the requested day names otherwise; the confirmation of  *)
(* a successful one-time add says that the schedule runs once.             *)

C31_ConfirmationSummarizes ==
    (result.op = "add" /\ result.success) =>
        LET s == TheVal(result.schedule)
        IN  IF s.is_recurring
            THEN /\ result.message.text = "creado recurrente"
                 /\ result.message.arg =
                        IF Range(TheVal(s.weekdays)) = 0..(DaysPerWeek - 1)
                        THEN <<"todos los dias">>
                        ELSE s.weekday_names
            ELSE result.message.text = "creado una vez"

----------------------------------------------------------------------------
----------------------------------------------------------------------------
(* C33: a one-time schedule the resolver has returned is inactive, in      *)
(* memory and in the file, before the executor is called for it and ever   *)
(* after; nothing makes an inactive one-time schedule active again; and    *)
(* over all ticks a one-time schedule is returned by the resolver at most  *)
(* once and handed to the executor at most once, whatever the executor     *)
(* call did and whether it was made at all.                                *)
C33_OneTimeAtMostOnce ==
    /\ [](\A i \in 1..Len(due) :
              ~due[i].item.is_recurring =>
                  LET u == due[i].item.user_id
                      n == due[i].item.id
                  IN  /\ ~RecordsOf(u)[n].active
                      /\ ~UserList(load_schedules(file), u)[n].active)
    /\ [](\A i \in 1..Len(handed) :
              LET s == RecordsOf(handed[i].user_id)[handed[i].id]
              IN  ~s.is_recurring => ~s.active)
    /\ [](\A u \in Users : \A i \in 1..Len(RecordsOf(u)) :
              ~RecordsOf(u)[i].is_recurring =>
                  /\ Cardinality({e \in returned :
                                     e[1] = u /\ e[2] = RecordsOf(u)[i].id})
                        <= 1
                  /\ Cardinality({e \in calls :
                                     e[1] = u /\ e[2] = RecordsOf(u)[i].id})
                        <= 1)
    /\ [][\A u \in Users : \A i \in 1..Len(RecordsOf(u)) :
              (~RecordsOf(u)[i].is_recurring /\ ~RecordsOf(u)[i].active)
                  => /\ Len(RecordsOfNext(u)) >= i
                     /\ ~RecordsOfNext(u)[i].active]_vars

\* the tick of 09:30 of the second day has found nothing due: of the two
\* one-time schedules returned at 09:30 of the first day one was handed to
\* the executor and the other never was, and both are inactive
C33_Witness ==
    /\ pc = "sleep"
    /\ DateStr(tickAt) = 1
    /\ CurrentMinute(tickAt) = [hour |-> 9, minute |-> 30]
    /\ handed = <<>>
    /\ Len(RecordsOf("u1")) = 2
    /\ \A i \in 1..2 :
           /\ ~RecordsOf("u1")[i].is_recurring
           /\ ~RecordsOf("u1")[i].active
           /\ <<"u1", i, 0, 9 * MinutesPerHour + 30>> \in Keys(returned)
    /\ <<"u1", 1, 0, 9 * MinutesPerHour + 30>> \in Keys(calls)
    /\ <<"u1", 2, 0, 9 * MinutesPerHour + 30>> \notin Keys(calls)

----------------------------------------------------------------------------
(* C34: a one-time schedule carries no date.  While it is active it has no *)
(* weekdays and no executed date; it stays active over every step but a    *)
(* delete of it and a tick that reads its minute; and a tick that reads    *)
(* its minute returns it and leaves it inactive on whatever day, the day   *)
(* after a missed minute included.                                         *)
C34_OneTimeHasNoDate ==
    /\ [](\A i \in 1..Len(RecordsOf("u1")) :
              LET s == RecordsOf("u1")[i]
              IN  (~s.is_recurring /\ s.active)
                      => IsNone(s.weekdays) /\ s.executed_dates = <<>>)
    /\ [][\A i \in 1..Len(RecordsOf("u1")) :
              LET s == RecordsOf("u1")[i]
              IN  (~s.is_recurring /\ s.active) =>
                      IF TickCall /\ s.time = CurrentMinute(now)
                      THEN /\ \E j \in 1..Len(result'.list) :
                                  /\ result'.list[j].user_id = "u1"
                                  /\ result'.list[j].id = s.id
                           /\ ~RecordsOfNext("u1")[i].active
                      ELSE \/ RecordsOfNext("u1")[i].active
                           \/ /\ DeleteCall("u1", s.id)
                              /\ pc' = pc
                              /\ due' = due]_vars

\* the minute of a one-time schedule went by on the first day with no tick
\* reading it, and the tick of that minute on the second day has returned
\* the schedule
C34_Witness ==
    \E i \in 1..Len(RecordsOf("u1")) :
        LET s == RecordsOf("u1")[i]
            mi == s.time.hour * MinutesPerHour + s.time.minute
        IN  /\ ~s.is_recurring
            /\ <<"u1", s.id, 0, mi>> \in missed
            /\ <<"u1", s.id, 0, mi>> \notin Keys(returned)
            /\ <<"u1", s.id, 1, mi>> \in Keys(returned)
            /\ ~s.active
            /\ s.executed_dates = <<1>>

----------------------------------------------------------------------------
(* C35: an add or a delete of user u changes the records of u only.  For   *)
(* every other user v the step leaves v's presence in the mapping, v's     *)
(* records with their ids and active flags, v's quota test, the id v's     *)
(* next schedule would get and what list(v) returns as they were; so a     *)
(* delete(u, id) never deactivates the schedule of v with the same id.     *)
C35_PerUserIsolation ==
    [][\A u \in Users, v \in Users :
          (/\ u # v
           /\ \/ AddCall(u)
              \/ \E schedule_id \in ScheduleIds : DeleteCall(u, schedule_id))
            => /\ HasUser(schedules', v) = HasUser(schedules, v)
               /\ RecordsOfNext(v) = RecordsOf(v)
               /\ QuotaReached(RecordsOfNext(v)) = QuotaReached(RecordsOf(v))
               /\ NextId(RecordsOfNext(v)) = NextId(RecordsOf(v))
               /\ list_schedules(schedules', v) = list_schedules(schedules, v)
      ]_vars

\* u1 has deleted its schedule 1 and the schedule 1 of u2 is still active
C35_Witness ==
    /\ result.op = "delete"
    /\ result.success
    /\ result.args.user_id = "u1"
    /\ result.args.schedule_id = 1
    /\ ~RecordsOf("u1")[1].active
    /\ Len(RecordsOf("u2")) >= 1
    /\ RecordsOf("u2")[1].id = 1
    /\ RecordsOf("u2")[1].active
    /\ list_schedules(schedules, "u2") # <<>>

----------------------------------------------------------------------------
(* C36: however the add calls of several threads for one user interleave,  *)
(* at most one of them is between its quota test and its save, no two      *)
(* records of the user have the same id, the ids are 1, 2, ... in the      *)
(* order of the list, and the user never has more than 5 records.          *)
C36_ConcurrentAddsAtomic ==
    /\ Cardinality({t \in Adders :
                       adders[t].pc \in {"locked", "built", "appended"}}) <= 1
    /\ \A i, j \in 1..Len(RecordsOf("u1")) :
           i # j => RecordsOf("u1")[i].id # RecordsOf("u1")[j].id
    /\ \A i \in 1..Len(RecordsOf("u1")) : RecordsOf("u1")[i].id = i
    /\ Len(RecordsOf("u1")) <= MaxSchedulesPerUser

\* one thread has appended the fifth record and not yet released the lock
\* while the other waits for the lock with its own add
C36_Witness ==
    /\ adders["a"].pc = "appended"
    /\ adders["b"].pc = "waiting"
    /\ lock = "a"
    /\ Len(RecordsOf("u1")) = MaxSchedulesPerUser
    /\ RecordsOf("u1")[MaxSchedulesPerUser].id = MaxSchedulesPerUser

----------------------------------------------------------------------------
(* C37: a start that found a file it could not read begins with the empty  *)
(* mapping.  While the file is still unreadable, the first write that      *)
(* succeeds is that of a successful add or of a tick that took a one-time  *)
(* schedule, and it leaves in the file the mapping in memory and nothing   *)
(* else: what the unreadable file held is gone.  The ids of every user     *)
(* start at 1 again.                                                       *)
C37_UnreadableFileReplaced ==
    /\ []((result.op = "restart" /\ ~FileSound(found)) => schedules = <<>>)
    /\ [][(/\ LoadFailedSoft
           /\ StillUnreadable
           /\ ~RestartCall
           /\ file' # file
           /\ ~FailedWrite)
            => /\ file' = FileWith(schedules')
               /\ load_schedules(file') = schedules'
               /\ \/ (\E u \in Users : AddCall(u)) /\ result'.success
                  \/ /\ ResolveCall
                     /\ \E i \in 1..Len(result'.list) :
                            ~result'.list[i].is_recurring
               /\ \A u \in Users : \A i \in 1..Len(RecordsOfNext(u)) :
                      RecordsOfNext(u)[i].id = i]_vars
    /\ [][\A u \in Users :
              (/\ LoadFailedSoft
               /\ AddCall(u)
               /\ result'.success
               /\ RecordsOf(u) = <<>>)
                => TheVal(result'.schedule).id = 1]_vars

\* the start found a file with two schedules of u1, one with a time text
\* that is no time; an add of u1 has since written the file, which holds
\* one schedule, with id 1
C37_Witness ==
    /\ found.state = "ok"
    /\ ~FileSound(found)
    /\ Len(found.data) = 1
    /\ found.data[1].user_id = "u1"
    /\ Len(found.data[1].list) = 2
    /\ loaded = <<>>
    /\ result.op = "add"
    /\ result.success
    /\ result.args.user_id = "u1"
    /\ TheVal(result.schedule).id = 1
    /\ file = FileWith(schedules)
    /\ TotalRecords(schedules) = 1
    /\ Len(file.data[1].list) = 1

----------------------------------------------------------------------------
(* C38: every failed create_connection adds one to connection_failures,    *)
(* after setting it to 0 when more than 3600 seconds have passed since the *)
(* last reset and at no other time: no other step changes the counter or   *)
(* the time of the last reset, a successful connection included.  The      *)
(* process has exited with status 1 exactly when the counter is 10; a      *)
(* failure that leaves the counter below 10 is followed by a sleep of at   *)
(* least 60 seconds and another attempt; and the counter is below 10       *)
(* while the loop runs.                                                    *)
C38_RestartAfterTenFailures ==
    /\ [](/\ main.pc = "exited" <=> main.status = Some(1)
          /\ main.pc = "exited"
               <=> main.connection_failures = MAX_FAILURES_BEFORE_RESTART
          /\ main.pc \in {"connect", "retry", "monitor"}
               => main.connection_failures < MAX_FAILURES_BEFORE_RESTART
          /\ main.connection_failures <= MAX_FAILURES_BEFORE_RESTART)
    /\ [][IF ConnectFailed
          THEN LET late == main.clock - main.last_failure_reset
                               > FAILURE_RESET_INTERVAL
               IN  /\ main'.connection_failures =
                          (IF late THEN 0 ELSE main.connection_failures) + 1
                   /\ main'.last_failure_reset =
                          IF late THEN main.clock
                          ELSE main.last_failure_reset
                   /\ main'.connection_failures < MAX_FAILURES_BEFORE_RESTART
                          => main'.pc = "retry"
          ELSE /\ main'.connection_failures = main.connection_failures
               /\ main'.last_failure_reset = main.last_failure_reset
               /\ (main.pc = "retry" /\ main'.pc # "stopped")
                     => /\ main'.pc = "connect"
                        /\ main'.clock >= main.clock + reconnect_interval
      ]_vars

\* the tenth failure in a row has ended the process, after a reset of the
\* counter more than an hour after the start
C38_Witness ==
    /\ main.pc = "exited"
    /\ main.status = Some(1)
    /\ main.connection_failures = MAX_FAILURES_BEFORE_RESTART
    /\ main.last_failure_reset > FAILURE_RESET_INTERVAL
    /\ main.clock - main.last_failure_reset
          = (MAX_FAILURES_BEFORE_RESTART - 1) * reconnect_interval

----------------------------------------------------------------------------
(* C39: get_stats returns max_per_user = 5, total_schedules equal to the   *)
(* sum over the users of the length of list_schedules(user), and           *)
(* total_users equal to the number of users that have at least one record, *)
(* whether or not any of their records is still active; the call changes   *)
(* nothing of the registry or its file.                                    *)
C39_StatsCounts ==
    /\ [](result.op = "stats" =>
            /\ result.stats.max_per_user = 5
            /\ result.stats.total_schedules =
                   ListedBy(schedules, "u1") + ListedBy(schedules, "u2")
            /\ result.stats.total_users =
                   Cardinality({u \in Users : RecordCount(schedules, u) >= 1}))
    /\ [][StatsCall => UNCHANGED <<schedules, file, writeFailures, fired>>]_vars

\* two users counted, one of them with a deleted and a consumed schedule
\* and none active
C39_Witness ==
    /\ result.op = "stats"
    /\ result.stats.total_users = 2
    /\ result.stats.total_schedules = 1
    /\ \E u \in Users :
          /\ RecordCount(schedules, u) = 2
          /\ list_schedules(schedules, u) = <<>>
          /\ \E i, j \in 1..2 :
                /\ UserList(schedules, u)[i].executed_dates # <<>>
                /\ UserList(schedules, u)[j].executed_dates = <<>>

====
